---------------------------- MODULE Spec2Model ----------------------------
(***************************************************************************)
(* Model of the BOM generator (src/src/bomgen): the part-number allocator  *)
(* and random row generator of random_data.py, the row writer of cli.py    *)
(* and the Generate BOM run of ui.py.                                      *)
(*                                                                         *)
(* Python strings are TLA+ strings (concatenation is \o).  A Python value  *)
(* that may be None, a string or a number is a tagged tuple: None,         *)
(* S("text"), N(3); a dict is a function from its keys to such values.     *)
(***************************************************************************)
EXTENDS Integers, Sequences, FiniteSets, TLC

VARIABLES
    counter,      \* random_data._part_number_counter
    lastPartNo,   \* the value returned by the latest allocator call
    lastOp,       \* the latest operation performed
    shortCalls,   \* get_next_partno() calls since the latest reset
    longCalls,    \* get_next_partno_long() calls since the latest reset
    allocs,       \* allocator calls of either form since the latest reset
    returned,     \* observer: part numbers returned since the latest reset
    genArgs,      \* the arguments of the latest random_child_rows call
    genRows,      \* the list it returned
    genRetries,   \* parent-collision retries of each row of that call
    form,         \* ui.py: the values the page's widgets hold
    run,          \* ui.py: the outcome of the latest run of main()
    clicked,      \* ui.py: the button whose click started that run
    cli,          \* cli.py: the latest run of the generate command
    sheet,        \* cli.py: a worksheet and the latest append_row_by_headers call
    comparison,   \* models.py: the BOMComparison object and its two BOMs
    lookup,       \* models.py: the latest BOM.get_item_by_part_number call
    prefixCall    \* random_data.py: the latest _prefix_from_index calls

allocVars == <<counter, lastPartNo, lastOp, shortCalls, longCalls, allocs, returned>>
genVars == <<genArgs, genRows, genRetries>>
uiVars == <<form, run, clicked>>
cliVars == <<cli, sheet>>
cmpVars == <<comparison>>
callVars == <<lookup, prefixCall>>
vars == <<allocVars, genVars, uiVars, cliVars, cmpVars, callVars>>

---------------------------------------------------------------------------
(* Bounds of the model.                                                    *)

\* SpecAlloc: allocator calls explored after a reset.
MaxCounter == 27001
\* SpecAlloc: get_next_partno_long() calls explored between two resets.
MaxLongCalls == 1
\* SpecUnique: part numbers the observer records between two resets.
MaxRecorded == 2
\* SpecUnique: the counter values explored.
MaxCounterUnique == 1000001
\* SpecGen: the largest count passed to random_child_rows.
MaxCount == 2

---------------------------------------------------------------------------
(* Python primitives used by random_data.py.                               *)

Digits == <<"0", "1", "2", "3", "4", "5", "6", "7", "8", "9">>

\* str(n) for an int n >= 0.
RECURSIVE IntToStr(_)
IntToStr(n) ==
    IF n < 10 THEN Digits[n + 1]
    ELSE IntToStr(n \div 10) \o Digits[(n % 10) + 1]

\* s.zfill(width), and the zero padding of the format spec 0<width>d.
RECURSIVE ZeroFill(_, _)
ZeroFill(s, width) ==
    IF Len(s) >= width THEN s ELSE ZeroFill("0" \o s, width)

\* chr(n) for the code points 65..95; the next one, chr(96), is a character a
\* TLA+ string cannot hold, so the model stops short of it (MaxPrefixIndex).
AsciiFrom65 ==
    <<"A", "B", "C", "D", "E", "F", "G", "H", "I", "J", "K", "L", "M",
      "N", "O", "P", "Q", "R", "S", "T", "U", "V", "W", "X", "Y", "Z",
      "[", "\\", "]", "^", "_">>

Chr(n) == AsciiFrom65[n - 64]

\* s * k  (string repetition).
RECURSIVE Repeat(_, _)
Repeat(s, k) == IF k <= 0 THEN "" ELSE s \o Repeat(s, k - 1)

---------------------------------------------------------------------------
(* random_data.py: the part-number allocator.                              *)

\* 1000 in get_next_partno: counter values per letter prefix.
PerPrefix == 1000
\* 3 in the format spec {num:03d}.
NumWidth == 3
\* 26 in _prefix_from_index: letters of the alphabet.
Letters == 26
\* 6 in get_next_partno_long: zfill width of the counter prefix.
LongPrefixDigits == 6
\* random.randint(20, 50) in get_next_partno_long.
MinLongLen == 20
MaxLongLen == 50

PrefixFromIndexOffByOne(i) ==
    IF i <= Letters THEN Chr(65 + i)
    ELSE LET first  == (i - Letters) \div Letters
             second == (i - Letters) % Letters
         IN  Chr(65 + first) \o Chr(65 + second)

prefix_from_index(i) ==
    IF i < Letters THEN Chr(65 + i)
    ELSE LET first  == (i - Letters) \div Letters
             second == (i - Letters) % Letters
         IN  Chr(65 + first) \o Chr(65 + second)

\* The largest prefix index whose letters Chr covers: first <= 30.
MaxPrefixIndex == 831

\* One call with the counter at c: the value returned and the counter after.
NextPartnoNoPlusOne(c) ==
    [partno  |-> prefix_from_index(c \div PerPrefix)
                    \o ZeroFill(IntToStr(c % PerPrefix), NumWidth),
     counter |-> c + 1]

get_next_partno(c) ==
    LET prefix_idx == c \div PerPrefix
        num        == (c % PerPrefix) + 1
        prefix     == prefix_from_index(prefix_idx)
    IN  [partno  |-> prefix \o ZeroFill(IntToStr(num), NumWidth),
         counter |-> c + 1]

\* The draws of one get_next_partno_long call: the length from
\* random.randint and the characters of random.choices, sampled as one
\* character followed by another repeated.
LongDraws ==
    [length : {MinLongLen, MaxLongLen}, first : {"0", "Z"}, rest : {"0", "Z"}]

RandomSuffix(draw, need) == draw.first \o Repeat(draw.rest, need - 1)

get_next_partno_long(c, draw) ==
    LET prefix == "P" \o ZeroFill(IntToStr(c), LongPrefixDigits)
        need   == draw.length - Len(prefix)
    IN  [partno  |-> IF need <= 0 THEN SubSeq(prefix, 1, draw.length)
                     ELSE prefix \o RandomSuffix(draw, need),
         counter |-> c + 1]

---------------------------------------------------------------------------
(* Python values.                                                          *)

None == <<"None">>
\* The empty list [].
EmptyList == <<"list">>
S(s) == <<"str", s>>
N(n) == <<"int", n>>
\* A float that round(x, 2) produced, in hundredths.
F(h) == <<"float", h>>

\* d.get(k): the value under k, None when the key is absent.
Get(d, k) == IF k \in DOMAIN d THEN d[k] ELSE None

Range(seq) == {seq[i] : i \in 1..Len(seq)}

---------------------------------------------------------------------------
(* cli.py: the schema.                                                     *)

TEMPLATE_HEADERS ==
    <<"PartNo", "Revision", "Description", "AltDescription1",
      "AltDescription2", "DescExtra", "Quantity", "IssueUM",
      "ConsumptionConv", "UM", "Cost", "Source", "Drawing", "Leadtime",
      "Level", "Location", "Memo1", "Memo2", "Parent", "Productline",
      "Sequence", "SortCode", "Tag", "Category", "BomComplete",
      "BomComments", "Router">>

REQUIRED_FIELDS == {"PartNo", "Quantity", "Parent", "Sequence"}

---------------------------------------------------------------------------
(* random_data.py: the random row generator.                               *)

LOCATIONS == <<"GS", "WH", "FL", "RM", "WS", "DC">>
PRODUCTLINES == <<"JM", "FG", "RM", "CM", "CP">>
SOURCES == <<"M", "P", "B", "C">>
SORTCODES ==
    <<"COMPBX", "HARDWARE", "LEVEL-1", "LEVEL-2", "ELECTRIC", "ELWR",
      "SHTCRS", "BARSS", "SHTALUM">>
UMS == <<"EA", "FT", "M", "KG", "L", "P", "J", "F", "SF", "FT", "SI">>
DESC_EXTRAS == <<"EXTRA", "OPTION", "VARIANT">>
TAGS == <<"TG", "TAG1", "TAG2">>

all_fields ==
    {"PartNo", "Revision", "Description", "AltDescription1",
     "AltDescription2", "DescExtra", "Quantity", "IssueUM",
     "ConsumptionConv", "UM", "Cost", "Source", "Drawing", "Leadtime",
     "Level", "Location", "Memo1", "Memo2", "Parent", "Productline",
     "Sequence", "SortCode", "Tag", "Category", "BomComplete",
     "BomComments", "Router"}

\* The random draws of one random_row_for_child call, sampled at the two
\* ends of every range: randint and uniform draws as numbers, choice draws
\* as indexes, random.random() > 0.2 as a boolean.
DrawLow ==
    [long |-> [length |-> MinLongLen, first |-> "0", rest |-> "0"],
     revision |-> 1, altdesc1 |-> 1, altdesc2 |-> 1, descextra |-> 1,
     quantity |-> 1, consumption |-> 25, um |-> 1, cost |-> 50,
     source |-> 1, drawing |-> 1, leadtime |-> 1, location |-> 1,
     memo1 |-> 1, memo2 |-> 1, productline |-> 1, sortcode |-> 1,
     tag |-> 1, categoryY |-> FALSE, bomcomments |-> 1]

DrawHigh ==
    [long |-> [length |-> MaxLongLen, first |-> "Z", rest |-> "Z"],
     revision |-> 5, altdesc1 |-> 3, altdesc2 |-> 3, descextra |-> 3,
     quantity |-> 10, consumption |-> 200, um |-> 11, cost |-> 25000,
     source |-> 4, drawing |-> 99, leadtime |-> 21, location |-> 6,
     memo1 |-> 3, memo2 |-> 3, productline |-> 5, sortcode |-> 9,
     tag |-> 3, categoryY |-> TRUE, bomcomments |-> 5]

RowDraws == {DrawLow, DrawHigh}

random_revision(draw) == "R" \o ZeroFill(IntToStr(draw.revision), 2)

\* The allocation of random_row_for_child: allocate, and again while the
\* number equals the parent's.
AllocOnce(c, parent_partno, use_long_partno, draw, retries) ==
    LET r == IF use_long_partno THEN get_next_partno_long(c, draw.long)
             ELSE get_next_partno(c)
    IN  [partno |-> r.partno, counter |-> r.counter, retries |-> retries]

RECURSIVE AllocChild(_, _, _, _, _)
AllocChild(c, parent_partno, use_long_partno, draw, retries) ==
    LET r == IF use_long_partno THEN get_next_partno_long(c, draw.long)
             ELSE get_next_partno(c)
    IN  IF r.partno = parent_partno
        THEN AllocChild(r.counter, parent_partno, use_long_partno, draw,
                        retries + 1)
        ELSE [partno |-> r.partno, counter |-> r.counter,
              retries |-> retries]

\* The keys the chain of "if <name> in fields" statements can set.
RowKeysWithoutRouter ==
    {"PartNo", "Revision", "Description", "AltDescription1",
     "AltDescription2", "DescExtra", "Quantity", "IssueUM",
     "ConsumptionConv", "UM", "Cost", "Source", "Drawing", "Leadtime",
     "Level", "Location", "Memo1", "Memo2", "Parent", "Productline",
     "Sequence", "SortCode", "Tag", "Category", "BomComplete",
     "BomComments"}

RowKeys ==
    {"PartNo", "Revision", "Description", "AltDescription1",
     "AltDescription2", "DescExtra", "Quantity", "IssueUM",
     "ConsumptionConv", "UM", "Cost", "Source", "Drawing", "Leadtime",
     "Level", "Location", "Memo1", "Memo2", "Parent", "Productline",
     "Sequence", "SortCode", "Tag", "Category", "BomComplete",
     "BomComments", "Router"}

\* The value each of those statements assigns.
RowValue(key, partno, parent_partno, sequence, level, draw) ==
    CASE key = "PartNo"          -> S(partno)
      [] key = "Revision"        -> S(random_revision(draw))
      [] key = "Description"     -> S(partno \o " Desc")
      [] key = "AltDescription1" -> S("ALT-DESC-" \o IntToStr(draw.altdesc1))
      [] key = "AltDescription2" -> S("ALT-DESC-" \o IntToStr(draw.altdesc2))
      [] key = "DescExtra"       -> S(DESC_EXTRAS[draw.descextra])
      [] key = "Quantity"        -> N(draw.quantity)
      [] key = "IssueUM"         -> S("EA")
      [] key = "ConsumptionConv" -> F(draw.consumption)
      [] key = "UM"              -> S(UMS[draw.um])
      [] key = "Cost"            -> F(draw.cost)
      [] key = "Source"          -> S(SOURCES[draw.source])
      [] key = "Drawing"         -> S("DRAW" \o IntToStr(draw.drawing))
      [] key = "Leadtime"        -> N(draw.leadtime)
      [] key = "Level"           -> N(level)
      [] key = "Location"        -> S(LOCATIONS[draw.location])
      [] key = "Memo1"           -> S("MEM" \o IntToStr(draw.memo1))
      [] key = "Memo2"           -> S("MEM" \o IntToStr(draw.memo2))
      [] key = "Parent"          -> S(parent_partno)
      [] key = "Productline"     -> S(PRODUCTLINES[draw.productline])
      [] key = "Sequence"        ->
             N(IF sequence > 0 THEN sequence * 100 ELSE 100)
      [] key = "SortCode"        -> S(SORTCODES[draw.sortcode])
      [] key = "Tag"             -> S(TAGS[draw.tag])
      [] key = "Category"        -> S(IF draw.categoryY THEN "Y" ELSE "")
      [] key = "BomComplete"     -> S("")
      [] key = "BomComments"     ->
             S("BOMCOMMENTS-" \o IntToStr(draw.bomcomments))
      [] key = "Router"          -> S("")

\* An Optional[Set[str]] argument: {} is None, {s} is the set s.
NoFields == {}
Fields(s) == {s}

\* fields_to_populate if fields_to_populate else all_fields
FieldsOrAll(fields_to_populate) ==
    IF fields_to_populate = NoFields THEN all_fields
    ELSE LET given == CHOOSE s \in fields_to_populate : TRUE
         IN  IF given = {} THEN all_fields ELSE given

random_row_for_child(c, parent_partno, sequence, level, fields_to_populate, use_long_partno, draw) ==
    LET fields == FieldsOrAll(fields_to_populate)
        a      == AllocChild(c, parent_partno, use_long_partno, draw, 0)
    IN  [row     |-> [key \in {k \in RowKeys : k \in fields} |->
                        RowValue(key, a.partno, parent_partno, sequence,
                                 level, draw)],
         counter |-> a.counter,
         retries |-> a.retries]

\* random_child_rows: rows i = 0 .. count-1 in order, row i with sequence
\* i + 1 and the draws draws[i + 1]; the counter runs through the calls.
RECURSIVE ChildRowsFrom(_, _, _, _, _, _, _, _)
ChildRowsFrom(acc, i, parent_partno, count, fields_to_populate, level, use_long_partno, draws) ==
    IF i >= count THEN acc
    ELSE LET r == random_row_for_child(acc.counter, parent_partno, i + 1,
                      level, fields_to_populate, use_long_partno,
                      draws[i + 1])
         IN  ChildRowsFrom([rows    |-> Append(acc.rows, r.row),
                            counter |-> r.counter,
                            retries |-> Append(acc.retries, r.retries)],
                           i + 1, parent_partno, count, fields_to_populate,
                           level, use_long_partno, draws)

random_child_rows(c, parent_partno, count, fields_to_populate, level, use_long_partno, draws) ==
    ChildRowsFrom([rows |-> <<>>, counter |-> c, retries |-> <<>>], 0,
                  parent_partno, count, fields_to_populate, level,
                  use_long_partno, draws)

---------------------------------------------------------------------------
(* ui.py: the Python expressions it uses.                                  *)

\* bool(v)
Truthy(v) == v \notin {None, S(""), N(0), F(0), EmptyList}

\* a or b
Or(a, b) == IF Truthy(a) THEN a ELSE b

\* v in (None, "", [])
IsBlank(v) == v \in {None, S(""), EmptyList}

\* str(v) of None, a string or an int.
PyStr(v) ==
    CASE v = None     -> "None"
      [] v[1] = "str" -> v[2]
      [] v[1] = "int" -> IntToStr(v[2])

RECURSIVE lstrip(_)
lstrip(s) ==
    IF Len(s) > 0 /\ SubSeq(s, 1, 1) = " "
    THEN lstrip(SubSeq(s, 2, Len(s)))
    ELSE s

RECURSIVE rstrip(_)
rstrip(s) ==
    IF Len(s) > 0 /\ SubSeq(s, Len(s), Len(s)) = " "
    THEN rstrip(SubSeq(s, 1, Len(s) - 1))
    ELSE s

\* s.strip()
strip(s) == rstrip(lstrip(s))

\* dict(pairs): a later pair replaces an earlier one with the same key.
DictOf(pairs) ==
    [k \in {pairs[i][1] : i \in 1..Len(pairs)} |->
        LET last == CHOOSE i \in 1..Len(pairs) :
                        /\ pairs[i][1] = k
                        /\ \A j \in (i + 1)..Len(pairs) : pairs[j][1] # k
        IN  pairs[last][2]]

\* d.update(e): the keys of e replace those of d.
Update(d, e) == e @@ d

RECURSIVE Concat(_)
\* The lists of a list of lists, one after the other.
Concat(lists) ==
    IF lists = <<>> THEN <<>> ELSE Head(lists) \o Concat(Tail(lists))

Min(a, b) == IF a < b THEN a ELSE b

---------------------------------------------------------------------------
(* ui.py: the dropdown tables.  The label of the empty Source is an em     *)
(* dash in the source; it is written "--" here.                            *)

CATEGORY_OPTIONS ==
    << <<"Normal", "">>, <<"Phantom", "P">>, <<"Exclude", "X">>,
       <<"Reference", "R">>, <<"Setup", "1">> >>

SOURCE_OPTIONS ==
    << <<"--", "">>, <<"Purchase to Stock", "P">>,
       <<"Purchase to Job", "J">>, <<"Manufactured to Stock", "M">>,
       <<"Manufactured to Job", "F">>, <<"Consign to Stock", "C">>,
       <<"Consign to Job", "G">> >>

CATEGORY_DISPLAY_TO_VALUE == DictOf(CATEGORY_OPTIONS)
SOURCE_DISPLAY_TO_VALUE == DictOf(SOURCE_OPTIONS)
CATEGORY_LABELS == [i \in 1..Len(CATEGORY_OPTIONS) |-> CATEGORY_OPTIONS[i][1]]
SOURCE_LABELS == [i \in 1..Len(SOURCE_OPTIONS) |-> SOURCE_OPTIONS[i][1]]

\* source_value in ("M", "F")
Manufactured(source_value) == source_value \in {S("M"), S("F")}

---------------------------------------------------------------------------
(* ui.py: _apply_random_row_defaults and _validate_category_source.        *)

\* The defaults with the Source and Category the generator populated kept.
apply_defaults_where_blank(rows, manufactured_count, apply_revision_to_all, apply_location_to_all, parent_revision, parent_location) ==
    [n \in 1..Len(rows) |->
        LET i      == n - 1
            source == IF "Source" \in DOMAIN rows[n] THEN rows[n]["Source"][2]
                      ELSE IF i < manufactured_count THEN "F" ELSE "J"
        IN  Update(rows[n],
              [UM          |-> S("EA"),
               Location    |-> IF apply_location_to_all
                               THEN Or(S(parent_location), None) ELSE None,
               Revision    |-> IF apply_revision_to_all
                               THEN Or(S(parent_revision), None) ELSE None,
               Category    |-> Get(rows[n], "Category"),
               Source      |-> S(source),
               Productline |-> S(IF source = "F" THEN "CP" ELSE "CM")])]

apply_random_row_defaults(rows, manufactured_count, apply_revision_to_all, apply_location_to_all, parent_revision, parent_location) ==
    [n \in 1..Len(rows) |->
        LET i      == n - 1
            source == IF i < manufactured_count THEN "F" ELSE "J"
        IN  Update(rows[n],
              [UM          |-> S("EA"),
               Location    |-> IF apply_location_to_all
                               THEN Or(S(parent_location), None) ELSE None,
               Revision    |-> IF apply_revision_to_all
                               THEN Or(S(parent_revision), None) ELSE None,
               Category    |-> S(""),
               Source      |-> S(source),
               Productline |-> S(IF source = "F" THEN "CP" ELSE "CM")])]

\* The error messages, as the rule that was broken; NoError is the None
\* that _validate_category_source returns for an acceptable row.
NoError == "none"

\* The rule with the Exclude test left out.
ValidatePhantomOnly(category_value, source_value) ==
    IF ~Truthy(category_value) THEN NoError
    ELSE IF category_value = S("P") /\ ~Manufactured(source_value)
         THEN "Phantom"
         ELSE NoError

validate_category_source(category_value, source_value) ==
    IF ~Truthy(category_value) THEN NoError
    ELSE IF category_value = S("P") /\ ~Manufactured(source_value)
         THEN "Phantom"
         ELSE IF category_value = S("X") /\ source_value # S("P")
              THEN "Exclude"
              ELSE NoError

---------------------------------------------------------------------------
(* ui.py, main(): the rows built from the widgets.  A form f holds the     *)
(* widget values of one script run; a widget the model does not vary has   *)
(* its default value, written where the code reads it.                     *)

\* What the user types into the Revision and Location boxes of a manual
\* part in place of the default text.
TypedRevision == "RX"
TypedLocation == "LX"

\* fields | {"Parent", "Sequence", "Level", "PartNo", "Quantity"}
FieldSet(fields) == fields \cup {"Parent", "Sequence", "Level", "PartNo", "Quantity"}

\* {h: None for h in TEMPLATE_HEADERS}
BlankRow == [h \in Range(TEMPLATE_HEADERS) |-> None]

\* A row variable that holds None: the row without keys.
NoRow == [h \in {} |-> None]
IsNoRow(row) == DOMAIN row = {}

\* parent_row, None without a parent part number.
ParentRow(f) ==
    IF f.parent_partno = "" THEN NoRow
    ELSE Update(BlankRow,
           [PartNo      |-> S(f.parent_partno),
            Description |-> S(""),
            Quantity    |-> F(100),
            UM          |-> Or(S("EA"), S("EA")),
            Productline |-> Or(S("FG"), S("FG")),
            Level       |-> N(0),
            Parent      |-> None,
            Sequence    |-> N(0),
            Revision    |-> Or(S(f.parent_revision), None),
            Source      |-> Or(S(SOURCE_DISPLAY_TO_VALUE[f.parent_source_label]), None),
            Location    |-> Or(S(f.parent_location), None),
            Category    |-> Or(S(CATEGORY_DISPLAY_TO_VALUE[f.parent_category_label]), None)])

\* The default text of a manual part's Revision and Location boxes, and
\* the text the run reads from them.
RevDefault(f) == IF f.apply_revision_to_all THEN f.parent_revision ELSE ""
LocDefault(f) == IF f.apply_location_to_all THEN f.parent_location ELSE ""
RevisionText(f, w) == IF w.typed THEN TypedRevision ELSE RevDefault(f)
LocationText(f, w) == IF w.typed THEN TypedLocation ELSE LocDefault(f)

\* The dict appended to child_data for the manual Level 1 part of index i
\* (from 0), whose widgets hold w.
ManualChild(f, w, i) ==
    Update(BlankRow,
      [PartNo      |-> S(w.partno),
       Revision    |-> Or(S(RevisionText(f, w)), None),
       Quantity    |-> F(100),
       UM          |-> Or(S("EA"), S("EA")),
       Source      |-> Or(S(SOURCE_DISPLAY_TO_VALUE[w.source_label]), None),
       Level       |-> N(1),
       Location    |-> Or(S(LocationText(f, w)), None),
       Parent      |-> S(f.parent_partno),
       Sequence    |-> N((i + 1) * f.sequence_increment),
       Category    |-> Or(S(CATEGORY_DISPLAY_TO_VALUE[w.category_label]), None)])

\* The rows of a random_child_rows call hold the parent it was given as
\* Parent: None when the parent is None.
WithParent(parent, r) ==
    IF parent = None
    THEN [r EXCEPT !.rows = [n \in 1..Len(r.rows) |->
                                Update(r.rows[n], [Parent |-> None])]]
    ELSE r

\* random_child_rows as main() calls it: short part numbers, and a parent
\* that may be None (a dropdown without options).  A None parent equals no
\* part number, so nothing is drawn again, and the rows hold it as Parent.
RandomRows(c, parent, count, fields, level, draws) ==
    WithParent(parent,
        random_child_rows(c, IF parent = None THEN "" ELSE parent[2], count,
                          Fields(FieldSet(fields)), level, FALSE, draws))

\* apply_random_row_defaults over the rows of one random_child_rows call,
\* with the form's revision and location settings.
DefaultedRows(r, manufactured_count, f) ==
    [rows    |-> apply_random_row_defaults(r.rows, manufactured_count,
                     f.apply_revision_to_all, f.apply_location_to_all,
                     f.parent_revision, f.parent_location),
     counter |-> r.counter]

\* child_data and the counter after the Level 1 section.
ChildData(f, c, draws) ==
    IF f.use_random_children
    THEN DefaultedRows(RandomRows(c, S(f.parent_partno), f.child_count,
                                  f.fields_for_random, 1, draws),
                       f.l1_manufactured_count, f)
    ELSE [rows    |-> [n \in 1..f.child_count |->
                          ManualChild(f, f.children[n], n - 1)],
          counter |-> c]

\* level1_partnos
Level1Partnos(child_data) ==
    LET HasPartNo(c) == Truthy(Get(c, "PartNo"))
        with == SelectSeq(child_data, HasPartNo)
    IN  [n \in 1..Len(with) |-> with[n]["PartNo"]]

\* next((c.get("Source") for c in child_data if c.get("PartNo") == pno), None)
FirstSource(child_data, pno) ==
    LET Matches(c) == Get(c, "PartNo") = pno
        found == SelectSeq(child_data, Matches)
    IN  IF found = <<>> THEN None ELSE Get(found[1], "Source")

\* level1_partnos_manufactured
Level1PartnosManufactured(child_data) ==
    LET IsManufactured(pno) == Manufactured(FirstSource(child_data, pno))
    IN  SelectSeq(Level1Partnos(child_data), IsManufactured)

\* any_l1_manufactured
AnyL1Manufactured(child_data) ==
    \E n \in 1..Len(child_data) :
        /\ Truthy(Get(child_data[n], "PartNo"))
        /\ Manufactured(Get(child_data[n], "Source"))

NeverBlockL2(child_data) == FALSE

\* block_l2, as a boolean
BlockL2(child_data) ==
    Level1Partnos(child_data) # <<>> /\ ~AnyL1Manufactured(child_data)

---------------------------------------------------------------------------
(* ui.py, main(): the Level 2 and Level 3 sections.  sec holds the         *)
(* widgets of one section: per (random parts for each manufactured         *)
(* parent), num_groups, random_all and the group widgets.                  *)

\* st.selectbox(label, options, index=0): the option chosen, the first
\* one by default, None when there are no options.
Selectbox(options, choice) ==
    IF options = <<>> THEN None
    ELSE IF choice \in 1..Len(options) THEN options[choice]
         ELSE options[1]

\* random_l2_per_l1 and random_l3_per_l2: the dict, or None (use is FALSE)
\* while the checkbox is not ticked.
NoRandomPer == [use |-> FALSE, count |-> 0, fields |-> {}, manufactured_count |-> 0]

RandomPer(per) ==
    IF per.use
    THEN [use |-> TRUE, count |-> per.count, fields |-> per.fields,
          manufactured_count |-> Min(per.manufactured, per.count)]
    ELSE NoRandomPer

\* The dict appended to manual_rows for the part of index j (from 0) of a
\* manual group.
ManualRow(f, w, parent, level, j) ==
    Update(BlankRow,
      [PartNo      |-> S(w.partno),
       Description |-> S(""),
       Quantity    |-> F(100),
       UM          |-> S("EA"),
       Source      |-> Or(S(SOURCE_DISPLAY_TO_VALUE[w.source_label]), None),
       Category    |-> Or(S(CATEGORY_DISPLAY_TO_VALUE[w.category_label]), None),
       Productline |-> S(""),
       Revision    |-> S(RevisionText(f, w)),
       Location    |-> S(LocationText(f, w)),
       Parent      |-> parent,
       Level       |-> N(level),
       Sequence    |-> N(j + 1)])

\* The dict appended to level2_config or level3_config for one group that
\* is not under "Randomly generate all groups".
GroupConfig(f, grp, options, level) ==
    LET parent == Selectbox(options, grp.parent_choice)
    IN  IF grp.random
        THEN [parent |-> parent, count |-> grp.count, random |-> TRUE,
              fields |-> grp.fields,
              manufactured_count |-> Min(grp.manufactured, grp.count),
              manual_rows |-> <<>>]
        ELSE [parent |-> parent, count |-> grp.count, random |-> FALSE,
              fields |-> {}, manufactured_count |-> 0,
              manual_rows |-> [n \in 1..grp.count |->
                  ManualRow(f, grp.parts[n], parent, level, n - 1)]]

\* The dict appended for group g (from 0) under "Randomly generate all
\* groups"; options is not empty.
RandomAllConfig(sec, options, g) ==
    [parent |-> options[(g % Len(options)) + 1], count |-> 2,
     random |-> TRUE, fields |-> sec.all_fields,
     manufactured_count |-> Min(sec.all_manufactured, 2),
     manual_rows |-> <<>>]

\* The section draws nothing and configures nothing.
NoSection ==
    [config |-> <<>>, random_per |-> NoRandomPer, notices |-> {},
     exception |-> FALSE]

\* The Level 2 section: level2_config, random_l2_per_l1, the messages
\* shown, and whether the run ended in an exception (the modulo by the
\* length of an empty list).
Level2Section(f, child_data) ==
    LET options == Level1PartnosManufactured(child_data)
        sec == f.l2
    IN  IF Level1Partnos(child_data) = <<>> THEN NoSection
        ELSE IF BlockL2(child_data)
        THEN [NoSection EXCEPT !.notices = {"block_l2"}]
        ELSE IF sec.num_groups > 0 /\ sec.random_all
        THEN IF options = <<>>
             THEN [NoSection EXCEPT !.random_per = RandomPer(sec.per),
                                    !.exception = TRUE]
             ELSE [NoSection EXCEPT
                      !.random_per = RandomPer(sec.per),
                      !.config = [n \in 1..sec.num_groups |->
                                     RandomAllConfig(sec, options, n - 1)]]
        ELSE [NoSection EXCEPT
                 !.random_per = RandomPer(sec.per),
                 !.config = [n \in 1..sec.num_groups |->
                                GroupConfig(f, sec.groups[n], options, 2)]]

\* The manual rows of a config, in order.
ManualRowsOf(config) ==
    Concat([n \in 1..Len(config) |-> config[n].manual_rows])

\* level2_partnos_for_l3: the part numbers typed for manual Level 2 parts.
Level2PartnosForL3(level2_config) ==
    LET rows == ManualRowsOf(level2_config)
        HasPartNo(r) == Truthy(r["PartNo"])
        with == SelectSeq(rows, HasPartNo)
    IN  [n \in 1..Len(with) |-> with[n]["PartNo"]]

\* level2_partno_to_source.get(pno): the Source of the last manual Level 2
\* part with that part number.
Level2SourceOf(level2_config, pno) ==
    LET rows == ManualRowsOf(level2_config)
        Matches(r) == r["PartNo"] = pno
        found == SelectSeq(rows, Matches)
    IN  IF found = <<>> THEN None ELSE found[Len(found)]["Source"]

\* level2_partnos_manufactured
Level2PartnosManufactured(level2_config) ==
    LET IsManufactured(pno) == Manufactured(Level2SourceOf(level2_config, pno))
    IN  SelectSeq(Level2PartnosForL3(level2_config), IsManufactured)

\* block_l3: bool(level2_partnos_for_l3) and not any_l2_manufactured
BlockL3(level2_config) ==
    /\ Level2PartnosForL3(level2_config) # <<>>
    /\ Level2PartnosManufactured(level2_config) = <<>>

\* The Level 3 section: level3_config, random_l3_per_l2 and the messages
\* shown.
Level3Section(f, child_data, level2_config) ==
    LET options == Level2PartnosManufactured(level2_config)
        manual == Level2PartnosForL3(level2_config)
        sec == f.l3
        hint == IF manual = <<>> THEN {"no_manual_l2"} ELSE {}
    IN  IF Level1Partnos(child_data) = <<>> THEN NoSection
        ELSE IF BlockL3(level2_config)
        THEN [NoSection EXCEPT !.notices = {"block_l3"}]
        ELSE IF sec.num_groups > 0 /\ options # <<>> /\ sec.random_all
        THEN [NoSection EXCEPT
                 !.random_per = RandomPer(sec.per),
                 !.notices = hint,
                 !.config = [n \in 1..sec.num_groups |->
                                RandomAllConfig(sec, options, n - 1)]]
        ELSE IF sec.num_groups > 0 /\ manual = <<>>
        THEN [NoSection EXCEPT !.random_per = RandomPer(sec.per),
                               !.notices = hint \cup {"l3_needs_manual_l2"}]
        ELSE [NoSection EXCEPT
                 !.random_per = RandomPer(sec.per),
                 !.notices = hint,
                 !.config = [n \in 1..sec.num_groups |->
                                GroupConfig(f, sec.groups[n], options, 3)]]

---------------------------------------------------------------------------
(* ui.py, main(): the Generate BOM branch.                                 *)

\* An entry of the errors list: the part label the message starts with,
\* the rule it reports and, for a missing-field message, the fields it
\* names.  level and index say which row the entry was appended for (its
\* level and its position in the level's list, from 1); the message does
\* not hold them.
ErrorEntry(label, rule, missing, level, index) ==
    [label |-> label, rule |-> rule, missing |-> missing, level |-> level,
     index |-> index]

\* [f for f in REQUIRED_FIELDS if row.get(f) in (None, "", [])]
MissingFields(row) == {h \in REQUIRED_FIELDS : IsBlank(Get(row, h))}

\* The entries one row adds: the missing-field message, else the message
\* of _validate_category_source, if any.
RowErrors(row, missing_label, rule_label, level, index) ==
    LET missing == MissingFields(row)
        err == validate_category_source(Get(row, "Category"), Get(row, "Source"))
    IN  IF missing # {}
        THEN <<ErrorEntry(missing_label, "Missing", missing, level, index)>>
        ELSE IF err # NoError
             THEN <<ErrorEntry(rule_label, err, {}, level, index)>>
             ELSE <<>>

\* The entries of the parent part.
ParentErrors(parent_row) ==
    IF IsNoRow(parent_row)
    THEN <<ErrorEntry("Parent part (PartNo and Description)", "Required", {}, 0, 1)>>
    ELSE LET err == validate_category_source(Get(parent_row, "Category"),
                                             Get(parent_row, "Source"))
         IN  IF err # NoError
             THEN <<ErrorEntry("Parent part", err, {}, 0, 1)>>
             ELSE <<>>

\* The entries of the Level 1 parts, in order.
Level1Errors(child_data) ==
    Concat([n \in 1..Len(child_data) |->
        RowErrors(child_data[n],
                  "Level 1 part #" \o IntToStr(n),
                  "Level 1 part #" \o IntToStr(n) \o " ("
                      \o PyStr(Get(child_data[n], "PartNo")) \o ")",
                  1, n)])

\* The entries of level2_rows + level3_rows, in order.
SubLevelErrors(level2_rows, level3_rows) ==
    LET Label(r) == "Part " \o PyStr(Get(r, "PartNo"))
    IN  Concat([n \in 1..Len(level2_rows) |->
            RowErrors(level2_rows[n], Label(level2_rows[n]),
                      Label(level2_rows[n]), 2, n)])
        \o Concat([n \in 1..Len(level3_rows) |->
            RowErrors(level3_rows[n], Label(level3_rows[n]),
                      Label(level3_rows[n]), 3, n)])

\* level_rows.extend(batch): the rows gain the batch, the counter is the
\* one the batch left.
Extended(acc, batch) ==
    [rows |-> acc.rows \o batch.rows, counter |-> batch.counter]

\* rows[start + i * count : start + (i + 1) * count] and the rest, for
\* the batches of random parts generated for each manufactured parent:
\* for each parent in turn, random_child_rows and then the defaults.  The
\* counter runs through the calls.
RECURSIVE RandomPerParent(_, _, _, _, _, _, _)
RandomPerParent(acc, parents, n, per, level, f, draws) ==
    IF n > Len(parents) THEN acc
    ELSE RandomPerParent(
             Extended(acc, DefaultedRows(
                 RandomRows(acc.counter, parents[n]["PartNo"], per.count,
                            per.fields, level, draws),
                 per.manufactured_count, f)),
             parents, n + 1, per, level, f, draws)

\* The row of a manual part put under itself.
AssembledUnderItself(r, cfg, level) ==
    Update([h \in Range(TEMPLATE_HEADERS) |-> Get(r, h)],
           [Parent |-> r["PartNo"], Level |-> N(level)])

\* The row built from a manual row r of a group.
AssembledRow(r, cfg, level) ==
    LET copied == {"PartNo", "Description", "Quantity", "UM", "Source",
                   "Category", "Productline", "Revision", "Location",
                   "AltDescription1", "AltDescription2", "DescExtra",
                   "IssueUM", "ConsumptionConv", "Cost", "Drawing",
                   "Leadtime", "Memo1", "Memo2", "SortCode", "Tag",
                   "BomComplete", "BomComments", "Router"}
        row == [h \in Range(TEMPLATE_HEADERS) |->
                   IF h \in copied /\ h \in DOMAIN r /\ r[h] # None
                   THEN r[h] ELSE None]
    IN  Update(row,
          [UM              |-> Or(row["UM"], S("EA")),
           IssueUM         |-> Get(r, "IssueUM"),
           ConsumptionConv |-> Get(r, "ConsumptionConv"),
           Parent          |-> cfg.parent,
           Level           |-> N(level),
           Sequence        |-> IF "Sequence" \in DOMAIN r
                               THEN r["Sequence"] ELSE N(0)])

\* The rows of the groups of a config, appended in order.
RECURSIVE GroupRows(_, _, _, _, _, _)
GroupRows(acc, config, n, level, f, draws) ==
    IF n > Len(config) THEN acc
    ELSE GroupRows(
             IF config[n].random
             THEN Extended(acc, DefaultedRows(
                      RandomRows(acc.counter, config[n].parent,
                                 config[n].count, config[n].fields, level,
                                 draws),
                      config[n].manufactured_count, f))
             ELSE [rows    |-> acc.rows \o
                                 [j \in 1..Len(config[n].manual_rows) |->
                                     AssembledRow(config[n].manual_rows[j],
                                                  config[n], level)],
                   counter |-> acc.counter],
             config, n + 1, level, f, draws)

\* for idx, r in enumerate(rows): r["Sequence"] = (idx + 1) * sequence_increment
KeepSequence(rows, sequence_increment) == rows

Resequence(rows, sequence_increment) ==
    [n \in 1..Len(rows) |->
        Update(rows[n], [Sequence |-> N(n * sequence_increment)])]

\* for r in rows: r[key] = value
SetAll(rows, key, value) ==
    [n \in 1..Len(rows) |-> Update(rows[n], key :> value)]

LeaveAll(rows, f) == rows

\* The Revision and Location overrides of one list of rows.
ApplyToAll(rows, f) ==
    LET revised == IF f.apply_revision_to_all
                   THEN SetAll(rows, "Revision", Or(S(f.parent_revision), None))
                   ELSE rows
    IN  IF f.apply_location_to_all
        THEN SetAll(revised, "Location", Or(S(f.parent_location), None))
        ELSE revised

\* The parent's row written as it stands in parent_row, Parent left blank.
ParentValuesAsBuilt(output_headers, parent_row, parent_partno) ==
    [n \in 1..Len(output_headers) |->
        IF Get(parent_row, output_headers[n]) = None THEN S("")
        ELSE Get(parent_row, output_headers[n])]

\* The values of the parent's row of the sheet.
ParentValues(output_headers, parent_row, parent_partno) ==
    [n \in 1..Len(output_headers) |->
        IF output_headers[n] = "Parent" THEN S(parent_partno)
        ELSE LET v == Get(parent_row, output_headers[n])
             IN  IF v = None THEN S("") ELSE v]

KeepSelfParent(row) == row

clear_self_parent(row) ==
    IF /\ Truthy(Get(row, "PartNo"))
       /\ Truthy(Get(row, "Parent"))
       /\ strip(PyStr(row["PartNo"])) = strip(PyStr(row["Parent"]))
    THEN Update(row, [Parent |-> S("")])
    ELSE row

---------------------------------------------------------------------------
(* cli.py: append_row_by_headers.                                          *)

\* The test without the exception made for an empty Parent.
is_missing_strict(row_data, h) == IsBlank(Get(row_data, h))

\* is_missing(f)
is_missing(row_data, h) ==
    IF h = "Parent" /\ Get(row_data, h) = S("") THEN FALSE
    ELSE IsBlank(Get(row_data, h))

\* ws after the call, and whether it raised ValueError.  A sheet is the
\* list of its data rows, each the list of its cell values.
append_row_by_headers(ws, headers, row_data) ==
    IF \E h \in REQUIRED_FIELDS : is_missing(row_data, h)
    THEN [ws |-> ws, raised |-> TRUE]
    ELSE [ws |-> Append(ws, [n \in 1..Len(headers) |->
                                Get(row_data, headers[n])]),
          raised |-> FALSE]

\* The rows appended one after the other until a call raises.
RECURSIVE AppendRows(_, _, _, _)
AppendRows(acc, headers, rows, n) ==
    IF acc.raised \/ n > Len(rows) THEN acc
    ELSE AppendRows(append_row_by_headers(acc.ws, headers,
                                          clear_self_parent(rows[n])),
                    headers, rows, n + 1)

---------------------------------------------------------------------------
(* ui.py: one run of main(), the script Streamlit runs from the top at     *)
(* every interaction.  Its outcome: where it got to (status), the counter  *)
(* it leaves, the rows it built, the errors and messages it displayed and  *)
(* the data rows of the workbook it offered for download.                  *)

Outcome(status, c, parent_row, child_data, notices) ==
    [status |-> status, counter |-> c, parent_row |-> parent_row,
     child_data |-> child_data, level2_rows |-> <<>>,
     level3_rows |-> <<>>, errors |-> <<>>, ws |-> <<>>,
     notices |-> notices]

\* if r.get("Source") == "M"
IsManufacturedRow(r) == Manufactured(Get(r, "Source"))

NoRows(c) == [rows |-> <<>>, counter |-> c]

\* Steps 1 and 2 of the Generate BOM branch: level2_rows.
Level2Rows(f, child, l2sec, draws) ==
    GroupRows(IF l2sec.random_per.use
              THEN RandomPerParent(NoRows(child.counter),
                       SelectSeq(child.rows, IsManufacturedRow), 1,
                       l2sec.random_per, 2, f, draws)
              ELSE NoRows(child.counter),
              l2sec.config, 1, 2, f, draws)

\* Steps 3 and 4 of the Generate BOM branch: level3_rows, from level2_rows
\* and the counter they left.
Level3Rows(f, l2, l3sec, draws) ==
    GroupRows(IF l3sec.random_per.use /\ l2.rows # <<>>
              THEN RandomPerParent(NoRows(l2.counter),
                       SelectSeq(l2.rows, IsManufacturedRow), 1,
                       l3sec.random_per, 3, f, draws)
              ELSE NoRows(l2.counter),
              l3sec.config, 1, 3, f, draws)

LevelsFrom(f, l2, l3sec, draws) ==
    [level2_rows |-> l2.rows,
     level3_rows |-> Level3Rows(f, l2, l3sec, draws).rows,
     counter     |-> Level3Rows(f, l2, l3sec, draws).counter]

\* Steps 1 to 4 of the Generate BOM branch: level2_rows and level3_rows.
AssembleLevels(f, child, l2sec, l3sec, draws) ==
    LevelsFrom(f, Level2Rows(f, child, l2sec, draws), l3sec, draws)

\* The workbook with the Level 2 rows written before the Level 1 rows.
WriteLevel2First(out, f) ==
    LET first == [ws |-> <<ParentValues(f.headers, out.parent_row,
                                        f.parent_partno)>>,
                  raised |-> FALSE]
        after2 == AppendRows(first, f.headers, out.level2_rows, 1)
        after1 == AppendRows(after2, f.headers, out.child_data, 1)
        after3 == AppendRows(after1, f.headers, out.level3_rows, 1)
    IN  IF after3.raised THEN [out EXCEPT !.status = "write_exception"]
        ELSE [out EXCEPT !.status = "written", !.ws = after3.ws]

\* The else branch of "if errors": the workbook is filled and offered.
WriteWorkbook(out, f) ==
    LET first == [ws |-> <<ParentValues(f.headers, out.parent_row,
                                        f.parent_partno)>>,
                  raised |-> FALSE]
        after1 == AppendRows(first, f.headers, out.child_data, 1)
        after2 == AppendRows(after1, f.headers, out.level2_rows, 1)
        after3 == AppendRows(after2, f.headers, out.level3_rows, 1)
    IN  IF after3.raised THEN [out EXCEPT !.status = "write_exception"]
        ELSE [out EXCEPT !.status = "written", !.ws = after3.ws]

\* Sequence recalculated within each of the two levels.
Resequenced(a, f) ==
    [a EXCEPT !.level2_rows = Resequence(@, f.sequence_increment),
              !.level3_rows = Resequence(@, f.sequence_increment)]

WriteAnyway(out, f) == WriteWorkbook(out, f)

\* "if errors: ... else:" once every row has been validated.
Finish(out, f) ==
    IF out.errors # <<>> THEN out ELSE WriteWorkbook(out, f)

\* The body of "if not errors:" with the assembled rows a.
Assembled(f, parent_row, child, notices, a) ==
    Finish([status      |-> "errors",
            counter     |-> a.counter,
            parent_row  |-> parent_row,
            child_data  |-> ApplyToAll(Resequence(child.rows,
                                f.sequence_increment), f),
            level2_rows |-> ApplyToAll(a.level2_rows, f),
            level3_rows |-> ApplyToAll(a.level3_rows, f),
            errors      |-> SubLevelErrors(a.level2_rows, a.level3_rows),
            ws          |-> <<>>,
            notices     |-> notices], f)

\* The Generate BOM branch.
GenerateBOM(f, parent_row, child, l2sec, l3sec, draws) ==
    LET first == ParentErrors(parent_row) \o Level1Errors(child.rows)
    IN  IF first # <<>>
        THEN [Outcome("errors", child.counter, parent_row, child.rows,
                      l2sec.notices \cup l3sec.notices)
                 EXCEPT !.errors = first]
        ELSE Assembled(f, parent_row, child,
                       l2sec.notices \cup l3sec.notices,
                       Resequenced(AssembleLevels(f, child, l2sec, l3sec,
                                                  draws), f))

\* The run from the Level 2 section on, with the sections' widgets read.
Sections(f, button, draws, parent_row, child, l2sec, l3sec) ==
    IF l2sec.exception
    THEN Outcome("exception", child.counter, parent_row, child.rows,
                 l2sec.notices \cup l3sec.notices)
    ELSE IF button # "Generate BOM"
    THEN Outcome("form", child.counter, parent_row, child.rows,
                 l2sec.notices \cup l3sec.notices)
    ELSE GenerateBOM(f, parent_row, child, l2sec, l3sec, draws)

\* The run from the Level 2 section on, with Level 1 read.
Level2And3(f, button, draws, parent_row, child, l2sec) ==
    Sections(f, button, draws, parent_row, child, l2sec,
             Level3Section(f, child.rows, l2sec.config))

\* The run from the Level 1 section on.
Level1On(f, button, draws, parent_row, child) ==
    Level2And3(f, button, draws, parent_row, child,
               Level2Section(f, child.rows))

\* main() with the warning shown once and the run going on without the
\* confirmation.
main_warning_only(f, button, draws) ==
    IF f.parent_partno = ""
    THEN Outcome("need_parent", 0, ParentRow(f), <<>>, {"need_parent"})
    ELSE Level1On(f, button, draws, ParentRow(f), ChildData(f, 0, draws))

\* main() run with the widgets holding f; button is the button whose click
\* started the run, "none" for any other interaction.
main(f, button, draws) ==
    IF f.headers # TEMPLATE_HEADERS /\ button # "Continue Anyway"
    THEN Outcome("header_mismatch", 0, NoRow, <<>>, {"header_mismatch"})
    ELSE IF f.parent_partno = ""
    THEN Outcome("need_parent", 0, ParentRow(f), <<>>, {"need_parent"})
    ELSE Level1On(f, button, draws, ParentRow(f), ChildData(f, 0, draws))

---------------------------------------------------------------------------
(* The forms explored: what the user has entered when a button is          *)
(* pressed.  Every level is drawn from a few samples, chosen so that each  *)
(* branch of main() is taken; the forms are all their combinations.        *)

DefaultFields == {"PartNo", "Description", "Quantity", "Cost"}

\* A manual part's widgets: the PartNo text, the Source and Category
\* chosen, and whether Revision and Location were typed over.
Part(partno, source_label, category_label, typed) ==
    [partno |-> partno, source_label |-> source_label,
     category_label |-> category_label, typed |-> typed]

\* The widgets of a manual part nobody touched.
DefaultPart == Part("", "--", "Normal", FALSE)

NoPer == [use |-> FALSE, count |-> 2, manufactured |-> 0, fields |-> DefaultFields]
Per(count, manufactured) == [use |-> TRUE, count |-> count, manufactured |-> manufactured, fields |-> DefaultFields]

ManualGroup(parent_choice, parts) ==
    [parent_choice |-> parent_choice, count |-> Len(parts),
     random |-> FALSE, manufactured |-> 0, fields |-> DefaultFields,
     parts |-> parts]

RandomGroup(parent_choice, count, manufactured) ==
    [parent_choice |-> parent_choice, count |-> count, random |-> TRUE,
     manufactured |-> manufactured, fields |-> DefaultFields,
     parts |-> <<>>]

Section(per, groups) ==
    [per |-> per, num_groups |-> Len(groups), random_all |-> FALSE,
     all_manufactured |-> 0, all_fields |-> DefaultFields,
     groups |-> groups]

\* num_groups groups under "Randomly generate all groups".
RandomAllSection(per, num_groups, all_manufactured) ==
    [per |-> per, num_groups |-> num_groups, random_all |-> TRUE,
     all_manufactured |-> all_manufactured, all_fields |-> DefaultFields,
     groups |-> <<>>]

\* The page as Streamlit first shows it.
DefaultForm ==
    [headers |-> TEMPLATE_HEADERS,
     parent_partno |-> "", parent_revision |-> "", parent_location |-> "",
     parent_source_label |-> "Manufactured to Stock",
     parent_category_label |-> "Normal",
     apply_revision_to_all |-> FALSE, apply_location_to_all |-> FALSE,
     sequence_increment |-> 100,
     use_random_children |-> FALSE, child_count |-> 2,
     l1_manufactured_count |-> 0, fields_for_random |-> DefaultFields,
     children |-> <<DefaultPart, DefaultPart>>,
     l2 |-> Section(NoPer, <<>>), l3 |-> Section(NoPer, <<>>)]

\* The parent part: an acceptable one and an Exclude that is manufactured;
\* Revision and Location entered or not, applied to all or not, with one
\* of the increments of the dropdown.
ParentSamples ==
    {[parent_partno |-> "A001", parent_source_label |-> "Manufactured to Stock",
      parent_category_label |-> cat, parent_revision |-> p[1],
      parent_location |-> p[2], apply_revision_to_all |-> p[3],
      apply_location_to_all |-> p[4], sequence_increment |-> p[5]] :
        cat \in {"Normal", "Exclude"},
        p \in {<<"", "", FALSE, FALSE, 100>>, <<"R9", "GS", TRUE, FALSE, 1>>,
               <<"R9", "GS", FALSE, TRUE, 10>>, <<"", "", TRUE, TRUE, 10000>>}}

\* Level 1 entered by hand: one or two parts out of these.
Level1Parts ==
    {Part("C1", "Manufactured to Stock", "Normal", FALSE),
     Part("C2", "Purchase to Stock", "Exclude", TRUE),
     Part("A001", "Manufactured to Job", "Phantom", FALSE),
     Part("", "Purchase to Stock", "Phantom", FALSE),
     Part("C1", "Purchase to Job", "Phantom", TRUE),
     Part("C1", "Purchase to Job", "Normal", FALSE),
     Part("C3", "--", "Reference", FALSE),
     DefaultPart}

Level1Samples ==
    {[use_random_children |-> FALSE, child_count |-> Len(parts),
      l1_manufactured_count |-> 0, fields_for_random |-> DefaultFields,
      children |-> parts] :
        parts \in {<<a>> : a \in Level1Parts}
                  \cup {<<a, b>> : a \in Level1Parts, b \in Level1Parts}}
    \cup
    {[use_random_children |-> TRUE, child_count |-> r[1],
      l1_manufactured_count |-> r[2], fields_for_random |-> r[3],
      children |-> <<>>] :
        r \in {<<1, 1, DefaultFields>>, <<2, 0, DefaultFields>>,
               <<2, 1, DefaultFields \cup {"Category", "Source", "UM",
                                          "Revision", "Location",
                                          "Productline"}>>}}

Level2Samples ==
    {Section(NoPer, <<>>),
     Section(Per(2, 1), <<>>),
     Section(Per(2, 0), <<>>),
     Section(NoPer, <<ManualGroup(1,
        <<Part("D1", "Manufactured to Job", "Normal", FALSE),
          Part("D2", "Manufactured to Stock", "Exclude", FALSE)>>)>>),
     Section(NoPer, <<ManualGroup(1,
        <<Part("C1", "Manufactured to Stock", "Phantom", TRUE)>>)>>),
     Section(NoPer, <<ManualGroup(1,
        <<Part("D1", "Manufactured to Job", "Normal", FALSE),
          DefaultPart>>)>>),
     Section(Per(1, 0), <<ManualGroup(2,
        <<Part("D1", "Manufactured to Job", "Normal", TRUE),
          Part("D2", "Purchase to Stock", "Exclude", FALSE)>>)>>),
     Section(NoPer, <<RandomGroup(1, 2, 2)>>),
     RandomAllSection(NoPer, 2, 1)}

Level3Samples ==
    {Section(NoPer, <<>>),
     Section(Per(1, 0), <<>>),
     Section(NoPer, <<ManualGroup(1,
        <<Part("D1", "Manufactured to Stock", "Normal", FALSE),
          Part("E1", "Purchase to Job", "Phantom", FALSE)>>)>>),
     Section(NoPer, <<ManualGroup(1,
        <<Part("C1", "Purchase to Stock", "Exclude", TRUE)>>)>>),
     Section(Per(2, 1), <<RandomGroup(1, 1, 0)>>),
     RandomAllSection(NoPer, 1, 0)}

\* A template whose first row is not the expected one: a header in lower
\* case, a header with a trailing blank, two columns exchanged, a column
\* missing, a column added.
MismatchedHeaders ==
    {[TEMPLATE_HEADERS EXCEPT ![1] = "partno"],
     [TEMPLATE_HEADERS EXCEPT ![1] = "PartNo "],
     [TEMPLATE_HEADERS EXCEPT ![1] = "Revision", ![2] = "PartNo"],
     SubSeq(TEMPLATE_HEADERS, 1, Len(TEMPLATE_HEADERS) - 1),
     Append(TEMPLATE_HEADERS, "Extra")}

FilledForms ==
    {l3 @@ l2 @@ l1 @@ p @@ [headers |-> TEMPLATE_HEADERS] :
        p \in ParentSamples, l1 \in Level1Samples,
        l2 \in {[l2 |-> s] : s \in Level2Samples},
        l3 \in {[l3 |-> s] : s \in Level3Samples}}

\* With a mismatched template: the page untouched, and one filled form.
MismatchForms ==
    {[f EXCEPT !.headers = h] :
        h \in MismatchedHeaders,
        f \in {DefaultForm,
               [DefaultForm EXCEPT !.parent_partno = "A001",
                                   !.children = <<Part("C1", "Manufactured to Stock", "Normal", FALSE),
                                                  Part("C2", "Purchase to Stock", "Normal", FALSE)>>]}}

Forms == FilledForms \cup MismatchForms

\* The forms with the parent and Level 1 filled in and the sections of
\* Level 2 and Level 3 left as they are.
Level1Forms ==
    {l1 @@ p @@ DefaultForm : p \in ParentSamples, l1 \in Level1Samples}

\* The random draws of a run: those of the parts of one batch, in order;
\* every batch of the run draws the same.
RunDraws == {<<DrawLow, DrawHigh>>, <<DrawHigh, DrawLow>>}

---------------------------------------------------------------------------
(* cli.py: the generate command.  One run reads the template, checks its   *)
(* headers, prompts for each child in turn and appends its row, and saves  *)
(* the workbook after the last child.  An exception ends the run there.    *)

\* float(text) of the answers sampled: the value in hundredths, or no entry
\* where float() raises ValueError.
FloatValue == [t \in {"1", "0", "2.5"} |->
                  IF t = "1" THEN 100 ELSE IF t = "0" THEN 0 ELSE 250]

\* The row dict built from the answers to the prompts of child #i+1.
CliRow(parent_part, i, answer) ==
    [Parent      |-> S(parent_part),
     Sequence    |-> N(i + 1),
     PartNo      |-> S(answer.partno),
     Description |-> S(answer.desc),
     Quantity    |-> F(FloatValue[answer.qty]),
     Source      |-> S(answer.source),
     UM          |-> S(answer.um)]

\* The state of a run: where it ended, the data rows of the worksheet in
\* memory and the rows of the file written by wb.save (saved tells whether
\* save was called).
CliOutcome(status, ws, saved) ==
    [status |-> status, ws |-> ws, saved |-> saved,
     file |-> IF saved THEN ws ELSE <<>>]

\* append_row_by_headers for child #i+1, inside "for i in range(child_count)".
CliAppended(appended, rest) ==
    IF appended.raised THEN CliOutcome("ValueError", appended.ws, FALSE)
    ELSE rest

\* for i in range(child_count): ... ; wb.save(output_path)
RECURSIVE CliChildren(_, _, _, _, _, _)
CliChildren(ws, parent_part, child_count, headers, answers, i) ==
    IF i >= child_count THEN CliOutcome("saved", ws, TRUE)
    ELSE IF answers[i + 1].qty \notin DOMAIN FloatValue
    THEN CliOutcome("ValueError", ws, FALSE)
    ELSE CliAppended(
             append_row_by_headers(ws, headers,
                 CliRow(parent_part, i, answers[i + 1])),
             CliChildren(
                 append_row_by_headers(ws, headers,
                     CliRow(parent_part, i, answers[i + 1])).ws,
                 parent_part, child_count, headers, answers, i + 1))

\* generate(parent_part, child_count, template_path, output_path), with
\* the first row of the template's sheet and the answers typed at the
\* prompts.
generate(parent_part, child_count, headers, answers) ==
    IF headers # TEMPLATE_HEADERS
    THEN CliOutcome("RuntimeError", <<>>, FALSE)
    ELSE CliChildren(<<>>, parent_part, child_count, headers, answers, 0)

\* The answers sampled for one child.  typer.prompt without a default asks
\* again on an empty answer, so PartNo is never empty; an empty answer to
\* Quantity or UM gives the default.
CliAnswers ==
    {[partno |-> p, desc |-> d, qty |-> q, source |-> "", um |-> "EA"] :
        p \in {"C1", "C2", "A001"}, d \in {"", "Bolt"},
        q \in {"1", "0", "2.5", "abc"}}

\* The command lines sampled: --parent-part may be given empty.
CliParents == {"A001", ""}
MaxCliChildren == 2

\* The command before any run.
CliIdle == [status |-> "idle", ws |-> <<>>, saved |-> FALSE, file |-> <<>>,
            parent_part |-> "", child_count |-> 0,
            headers |-> TEMPLATE_HEADERS, answers |-> <<>>]

---------------------------------------------------------------------------
(* cli.py: append_row_by_headers called directly.                          *)

\* The worksheet with no data row, before any call.
NoCallYet == [before |-> <<>>, row_data |-> [h \in {} |-> None],
              called |-> FALSE, ws |-> <<>>, raised |-> FALSE]

\* A dict without the keys whose value is given as Absent.
Absent == <<"absent">>
DictWithout(d) == [h \in {k \in DOMAIN d : d[k] # Absent} |-> d[h]]

\* The row dicts sampled: each required field present, zero, empty, None,
\* an empty list or absent; the row is the top-level one or a Level 1 one.
SampleRowData ==
    {DictWithout([PartNo |-> p, Quantity |-> q, Parent |-> a,
                  Sequence |-> s, Level |-> l, UM |-> S("EA")]) :
        p \in {S("C1"), S(""), None, Absent},
        q \in {F(100), F(0), None, EmptyList},
        a \in {S("A001"), S(""), None, Absent},
        s \in {N(1), N(0), S(""), None},
        l \in {N(0), N(1)}}

\* The longest worksheet explored.
MaxSheetRows == 2

---------------------------------------------------------------------------
(* models.py: BOMItem, BOM and BOMComparison.  A BOMItem is the record of  *)
(* its fields, quantity in hundredths; a BOM is the list of its items (its *)
(* name, version, date and metadata take no part in the comparison).       *)

BOMItem(part_number, description, quantity, unit, reference_designator, notes) ==
    [part_number |-> part_number, description |-> description,
     quantity |-> quantity, unit |-> unit,
     reference_designator |-> reference_designator, notes |-> notes]

\* set(dict.keys()) of the lookup built from items.
PartNumbers(items) == {items[i].part_number : i \in 1..Len(items)}

\* The lookup with the first item kept under each key.
ItemDictFirst(items) ==
    [p \in {items[i].part_number : i \in 1..Len(items)} |->
        items[CHOOSE i \in 1..Len(items) :
                 /\ items[i].part_number = p
                 /\ \A j \in 1..(i - 1) : items[j].part_number # p]]

\* {item.part_number: item for item in items}: a later item replaces an
\* earlier one under the same key.
ItemDict(items) ==
    [p \in {items[i].part_number : i \in 1..Len(items)} |->
        items[CHOOSE i \in 1..Len(items) :
                 /\ items[i].part_number = p
                 /\ \A j \in (i + 1)..Len(items) : items[j].part_number # p]]

\* The orders in which a set may be iterated.
Orders(set) ==
    {order \in [1..Cardinality(set) -> set] : Range(order) = set}

\* item1 != item2, over every field of the dataclass.
ItemsUnequal(item1, item2) == item1 # item2

\* item1.quantity != item2.quantity or ... description ... or ... unit
ItemsDiffer(item1, item2) ==
    \/ item1.quantity # item2.quantity
    \/ item1.description # item2.description
    \/ item1.unit # item2.unit

\* The for loop over common_parts, taken in the order given.
CommonItems(bom1_dict, bom2_dict, common_order, modified) ==
    LET Wanted(part) ==
            ItemsDiffer(bom1_dict[part], bom2_dict[part]) = modified
        parts == SelectSeq(common_order, Wanted)
    IN  [n \in 1..Len(parts) |->
            IF modified THEN <<bom1_dict[parts[n]], bom2_dict[parts[n]]>>
            ELSE bom1_dict[parts[n]]]

\* The differences with the one-sided lists taken item by item from the
\* BOMs instead of key by key from the lookups.
calculate_per_item(bom1, bom2, removed_order, added_order, common_order) ==
    LET OnlyIn1(item) == item.part_number \notin PartNumbers(bom2)
        OnlyIn2(item) == item.part_number \notin PartNumbers(bom1)
    IN  [removed_items   |-> SelectSeq(bom1, OnlyIn1),
         added_items     |-> SelectSeq(bom2, OnlyIn2),
         modified_items  |-> CommonItems(ItemDict(bom1), ItemDict(bom2),
                                         common_order, TRUE),
         unchanged_items |-> CommonItems(ItemDict(bom1), ItemDict(bom2),
                                         common_order, FALSE)]

\* The differences with the two one-sided lists exchanged.
calculate_exchanged(bom1, bom2, removed_order, added_order, common_order) ==
    [removed_items   |-> [n \in 1..Len(added_order) |->
                             ItemDict(bom2)[added_order[n]]],
     added_items     |-> [n \in 1..Len(removed_order) |->
                             ItemDict(bom1)[removed_order[n]]],
     modified_items  |-> CommonItems(ItemDict(bom1), ItemDict(bom2),
                                     common_order, TRUE),
     unchanged_items |-> CommonItems(ItemDict(bom1), ItemDict(bom2),
                                     common_order, FALSE)]

\* _calculate_differences, the three sets iterated in the orders given.
calculate_differences(bom1, bom2, removed_order, added_order, common_order) ==
    [removed_items   |-> [n \in 1..Len(removed_order) |->
                             ItemDict(bom1)[removed_order[n]]],
     added_items     |-> [n \in 1..Len(added_order) |->
                             ItemDict(bom2)[added_order[n]]],
     modified_items  |-> CommonItems(ItemDict(bom1), ItemDict(bom2),
                                     common_order, TRUE),
     unchanged_items |-> CommonItems(ItemDict(bom1), ItemDict(bom2),
                                     common_order, FALSE)]

\* The lists given to the constructor.
Supplied(added_items, removed_items, modified_items, unchanged_items) ==
    [added_items |-> added_items, removed_items |-> removed_items,
     modified_items |-> modified_items, unchanged_items |-> unchanged_items]

\* __post_init__ with the test made on all four lists.
post_init_all_four(bom1, bom2, supplied, removed_order, added_order, common_order) ==
    IF supplied = Supplied(<<>>, <<>>, <<>>, <<>>)
    THEN calculate_differences(bom1, bom2, removed_order, added_order,
                               common_order)
    ELSE supplied

\* __post_init__
post_init(bom1, bom2, supplied, removed_order, added_order, common_order) ==
    IF /\ supplied.added_items = <<>>
       /\ supplied.removed_items = <<>>
       /\ supplied.modified_items = <<>>
    THEN calculate_differences(bom1, bom2, removed_order, added_order,
                               common_order)
    ELSE supplied

\* No BOMComparison has been constructed.
NoComparison ==
    [made |-> FALSE, bom1 |-> <<>>, bom2 |-> <<>>,
     supplied |-> Supplied(<<>>, <<>>, <<>>, <<>>),
     added_items |-> <<>>, removed_items |-> <<>>, modified_items |-> <<>>,
     unchanged_items |-> <<>>]

\* The items sampled: three part numbers, and items of P1 and P2 that
\* differ from the first in one field.
SampleItems ==
    {BOMItem("P1", "A", 200, "EA", None, None),
     BOMItem("P1", "A", 300, "EA", None, None),
     BOMItem("P1", "B", 200, "EA", None, None),
     BOMItem("P1", "A", 200, "KG", None, None),
     BOMItem("P1", "A", 200, "EA", None, S("check")),
     BOMItem("P2", "C", 500, "EA", None, None),
     BOMItem("P2", "C", 500, "EA", S("R1"), None),
     BOMItem("P3", "D", 100, "EA", None, None)}

\* The longest BOM sampled.
MaxItems == 2

SampleBOMs == UNION {[1..n -> SampleItems] : n \in 0..MaxItems}

\* The result lists sampled for the constructor: all empty, unchanged_items
\* alone not empty, or one of the first three not empty.
SampleSupplied ==
    {Supplied(<<>>, <<>>, <<>>, <<>>),
     Supplied(<<>>, <<>>, <<>>, <<BOMItem("P3", "D", 100, "EA", None, None)>>),
     Supplied(<<BOMItem("P3", "D", 100, "EA", None, None)>>, <<>>, <<>>,
              <<BOMItem("P1", "A", 200, "EA", None, None)>>),
     Supplied(<<>>, <<BOMItem("P3", "D", 100, "EA", None, None)>>, <<>>, <<>>),
     Supplied(<<>>, <<>>,
              <<<<BOMItem("P2", "C", 500, "EA", None, None),
                  BOMItem("P2", "C", 600, "EA", None, None)>>>>, <<>>)}

\* add_item followed by a new calculation of the differences.
add_item_recomputing(c, which, item) ==
    LET bom1 == IF which = 1 THEN Append(c.bom1, item) ELSE c.bom1
        bom2 == IF which = 2 THEN Append(c.bom2, item) ELSE c.bom2
    IN  calculate_differences(bom1, bom2,
            CHOOSE o \in Orders(PartNumbers(bom1) \ PartNumbers(bom2)) : TRUE,
            CHOOSE o \in Orders(PartNumbers(bom2) \ PartNumbers(bom1)) : TRUE,
            CHOOSE o \in Orders(PartNumbers(bom1) \cap PartNumbers(bom2)) : TRUE)
        @@ [made |-> TRUE, bom1 |-> bom1, bom2 |-> bom2,
            supplied |-> c.supplied]

\* BOM.add_item on bom1 (which = 1) or bom2 of a comparison: the item is
\* appended to the items of the BOM, which the comparison refers to; the
\* result lists are lists of their own.
add_item(c, which, item) ==
    IF which = 1 THEN [c EXCEPT !.bom1 = Append(@, item)]
    ELSE [c EXCEPT !.bom2 = Append(@, item)]

\* The longest BOM a comparison whose BOMs grow afterwards is made of.
MaxItemsBefore == 1

ShortBOMs == UNION {[1..n -> SampleItems] : n \in 0..MaxItemsBefore}

\* The items added after the comparison.
AddedItems ==
    {BOMItem("P1", "A", 300, "EA", None, None),
     BOMItem("P2", "C", 500, "EA", None, None),
     BOMItem("P3", "D", 100, "EA", None, None)}

\* A BOMItem as a value that may also be None.
Item(item) == <<"BOMItem", item>>

\* get_item_by_part_number returning the last item with the part number.
get_last_item_by_part_number(items, part_number) ==
    IF \A i \in 1..Len(items) : items[i].part_number # part_number
    THEN None
    ELSE Item(items[CHOOSE i \in 1..Len(items) :
                       /\ items[i].part_number = part_number
                       /\ \A j \in (i + 1)..Len(items) :
                              items[j].part_number # part_number])

\* BOM.get_item_by_part_number: the for loop returns at the first item
\* with the part number, and None is returned after the loop.
get_item_by_part_number(items, part_number) ==
    IF \A i \in 1..Len(items) : items[i].part_number # part_number
    THEN None
    ELSE Item(items[CHOOSE i \in 1..Len(items) :
                       /\ items[i].part_number = part_number
                       /\ \A j \in 1..(i - 1) :
                              items[j].part_number # part_number])

\* No get_item_by_part_number call has been made.
NoLookup ==
    [called |-> FALSE, items |-> <<>>, part_number |-> "", result |-> None]

\* The part numbers looked up: those of the sampled items and one more.
LookupPartNumbers == {"P1", "P2", "P3", "P4"}

\* No _prefix_from_index call has been made.
NoPrefixCall ==
    [calls |-> 0, i |-> 0, prefix |-> "", earlier_i |-> 0,
     earlier_prefix |-> ""]

---------------------------------------------------------------------------
(* random_data.py: the allocation loop of random_row_for_child with the    *)
(* draws of every attempt its own.                                         *)

\* The attempts followed in one call of the loop.
MaxAttempts == 3

\* The loop with the counter left where it was by an allocation that hit
\* the parent's number.
RECURSIVE AllocAttemptsSameCounter(_, _, _, _, _)
AllocAttemptsSameCounter(c, parent_partno, use_long_partno, longs, retries) ==
    LET r == IF use_long_partno
             THEN get_next_partno_long(c, longs[retries + 1])
             ELSE get_next_partno(c)
    IN  IF r.partno = parent_partno /\ retries + 1 < Len(longs)
        THEN AllocAttemptsSameCounter(c, parent_partno, use_long_partno,
                                      longs, retries + 1)
        ELSE [partno |-> r.partno, counter |-> r.counter,
              retries |-> retries, again |-> r.partno = parent_partno]

\* partno = get_next(); while partno == parent_partno: partno = get_next().
\* Attempt k draws longs[k]; the loop is followed for Len(longs) attempts,
\* and again tells that the last of them hit the parent's number too.
RECURSIVE AllocAttempts(_, _, _, _, _)
AllocAttempts(c, parent_partno, use_long_partno, longs, retries) ==
    LET r == IF use_long_partno
             THEN get_next_partno_long(c, longs[retries + 1])
             ELSE get_next_partno(c)
    IN  IF r.partno = parent_partno /\ retries + 1 < Len(longs)
        THEN AllocAttempts(r.counter, parent_partno, use_long_partno, longs,
                           retries + 1)
        ELSE [partno |-> r.partno, counter |-> r.counter,
              retries |-> retries, again |-> r.partno = parent_partno]

\* The counter values at which the loop is entered.
RetryCounters == {0, 1, 998, 999, 99999, 100000, 999999, 1000000}

\* The parents: the short-form numbers of the counters 0, 999 and 1000, the
\* long-form numbers of 0 and 1, and the one 100000 and 1000000 both yield.
RetryParents ==
    {"A001", "A1000", "B001", "P0000000000000000000",
     "P0000010000000000000", "P1000000000000000000",
     "P000000ZZZZZZZZZZZZZZZZZZZZZZZZZZZZZZZZZZZZZZZZZZZ"}
---------------------------------------------------------------------------
(* The allocator as a state machine: one action per call.                  *)

\* No random_child_rows call has been made.
NoCall == [count |-> 0]

Init ==
    /\ counter = 0
    /\ lastPartNo = ""
    /\ lastOp = "init"
    /\ shortCalls = 0
    /\ longCalls = 0
    /\ allocs = 0
    /\ returned = <<>>
    /\ genArgs = NoCall
    /\ genRows = <<>>
    /\ genRetries = <<>>
    /\ form = DefaultForm
    /\ run = main(DefaultForm, "none", <<>>)
    /\ clicked = "none"
    /\ cli = CliIdle
    /\ sheet = NoCallYet
    /\ comparison = NoComparison
    /\ lookup = NoLookup
    /\ prefixCall = NoPrefixCall

\* reset_part_number_counter(); the observers start afresh with it.
ResetPartNumberCounter ==
    /\ counter' = 0
    /\ lastPartNo' = ""
    /\ lastOp' = "reset"
    /\ shortCalls' = 0
    /\ longCalls' = 0
    /\ allocs' = 0
    /\ returned' = <<>>
    /\ genArgs' = NoCall
    /\ genRows' = <<>>
    /\ genRetries' = <<>>
    /\ UNCHANGED <<uiVars, cliVars, cmpVars, callVars>>

GetNextPartno ==
    /\ counter < MaxCounter
    /\ LET r == get_next_partno(counter)
       IN  /\ counter' = r.counter
           /\ lastPartNo' = r.partno
    /\ lastOp' = "short"
    /\ shortCalls' = shortCalls + 1
    /\ allocs' = allocs + 1
    /\ UNCHANGED <<longCalls, returned, genVars, uiVars, cliVars, cmpVars, callVars>>

GetNextPartnoLong ==
    /\ counter < MaxCounter
    /\ longCalls < MaxLongCalls
    /\ \E draw \in LongDraws :
          LET r == get_next_partno_long(counter, draw)
          IN  /\ counter' = r.counter
              /\ lastPartNo' = r.partno
    /\ lastOp' = "long"
    /\ longCalls' = longCalls + 1
    /\ allocs' = allocs + 1
    /\ UNCHANGED <<shortCalls, returned, genVars, uiVars, cliVars, cmpVars, callVars>>

AllocNext == ResetPartNumberCounter \/ GetNextPartno \/ GetNextPartnoLong

SpecAlloc == Init /\ [][AllocNext]_vars

---------------------------------------------------------------------------
(* The allocator with an observer that records returned part numbers.  A   *)
(* run of calls whose results nobody keeps (the rows of a                  *)
(* random_child_rows batch that is thrown away, say) moves the counter and *)
(* records nothing.                                                        *)

\* Sizes of the unrecorded runs of calls.
DiscardedRuns == {100000, 899999}

RecordPartno ==
    /\ Len(returned) < MaxRecorded
    /\ counter < MaxCounterUnique
    /\ counter \div PerPrefix <= MaxPrefixIndex
    /\ LET r == get_next_partno(counter)
       IN  /\ counter' = r.counter
           /\ lastPartNo' = r.partno
           /\ returned' = Append(returned, r.partno)
    /\ lastOp' = "short"
    /\ shortCalls' = shortCalls + 1
    /\ allocs' = allocs + 1
    /\ UNCHANGED <<longCalls, genVars, uiVars, cliVars, cmpVars, callVars>>

RecordPartnoLong ==
    /\ Len(returned) < MaxRecorded
    /\ counter < MaxCounterUnique
    /\ \E draw \in LongDraws :
          LET r == get_next_partno_long(counter, draw)
          IN  /\ counter' = r.counter
              /\ lastPartNo' = r.partno
              /\ returned' = Append(returned, r.partno)
    /\ lastOp' = "long"
    /\ longCalls' = longCalls + 1
    /\ allocs' = allocs + 1
    /\ UNCHANGED <<shortCalls, genVars, uiVars, cliVars, cmpVars, callVars>>

DiscardedCalls ==
    /\ \E k \in DiscardedRuns :
          /\ counter + k < MaxCounterUnique
          /\ counter' = counter + k
          /\ allocs' = allocs + k
    /\ lastOp' = "discarded"
    /\ UNCHANGED <<lastPartNo, shortCalls, longCalls, returned, genVars, uiVars, cliVars, cmpVars, callVars>>

UniqueNext ==
    ResetPartNumberCounter \/ RecordPartno \/ RecordPartnoLong \/ DiscardedCalls

SpecUnique == Init /\ [][UniqueNext]_vars

---------------------------------------------------------------------------
(* random_child_rows called with the counter at several values: at 0, or   *)
(* after a run of earlier allocator calls.                                 *)

\* Sizes of the runs of earlier calls: up to the end of the prefix A.
CallsBefore == {1, 2, 998, 999}

\* The long-form number allocated first after a reset under DrawLow.
LongParent == "P0000000000000000000"

GenParents == {"A001", "A002", "B001", LongParent}

GenFields ==
    {NoFields, Fields({}), Fields({"PartNo"}), Fields({"Description", "Cost"}),
     Fields({"PartNo", "Bogus"}),
     Fields({"PartNo", "Description", "Quantity", "Cost", "Parent",
             "Sequence", "Level"})}

GenLevels == 1..3

EarlierCalls ==
    /\ lastOp \in {"init", "reset"}
    /\ \E k \in CallsBefore :
          /\ counter' = counter + k
          /\ allocs' = allocs + k
    /\ lastOp' = "discarded"
    /\ UNCHANGED <<lastPartNo, shortCalls, longCalls, returned, genVars, uiVars, cliVars, cmpVars, callVars>>

RandomChildRows ==
    /\ lastOp \in {"init", "reset", "discarded"}
    /\ \E parent_partno \in GenParents, count \in 0..MaxCount,
          fields_to_populate \in GenFields, level \in GenLevels,
          use_long_partno \in BOOLEAN :
          \E draws \in [1..count -> RowDraws] :
             LET r == random_child_rows(counter, parent_partno, count,
                          fields_to_populate, level, use_long_partno, draws)
             IN  /\ genArgs' = [parent_partno |-> parent_partno,
                                count |-> count,
                                fields_to_populate |-> fields_to_populate,
                                level |-> level,
                                use_long_partno |-> use_long_partno]
                 /\ genRows' = r.rows
                 /\ genRetries' = r.retries
                 /\ counter' = r.counter
                 /\ allocs' = allocs + (r.counter - counter)
    /\ lastOp' = "rows"
    /\ UNCHANGED <<lastPartNo, shortCalls, longCalls, returned, uiVars, cliVars, cmpVars, callVars>>

GenNext == ResetPartNumberCounter \/ EarlierCalls \/ RandomChildRows

SpecGen == Init /\ [][GenNext]_vars

---------------------------------------------------------------------------
(* The page as a state machine.  The user fills the fresh page in and      *)
(* presses buttons; each interaction is one run of main() from the top,    *)
(* with a button reading True only in the run its click started.           *)

\* A run of main(): the counter is reset and then moved by the run's
\* allocations, all of the short form.
RunMain(button, draws) ==
    /\ run' = main(form', button, draws)
    /\ clicked' = button
    /\ counter' = run'.counter
    /\ lastPartNo' = IF run'.counter = 0 THEN ""
                     ELSE get_next_partno(run'.counter - 1).partno
    /\ lastOp' = "main"
    /\ shortCalls' = run'.counter
    /\ longCalls' = 0
    /\ allocs' = run'.counter
    /\ returned' = <<>>
    /\ UNCHANGED <<genVars, cliVars, cmpVars, callVars>>

\* The statuses of a run that reached st.button("Generate BOM").
GenerateShown == {"form", "errors", "written", "write_exception"}

\* The user fills the fresh page in; the run of the last entry shows it.
FillForm ==
    /\ form = DefaultForm
    /\ \E f \in Forms, draws \in RunDraws :
        /\ form' = f
        /\ RunMain("none", draws)

\* The user clicks Continue Anyway under the header warning.
PressContinueAnyway ==
    /\ run.status = "header_mismatch"
    /\ form' = form
    /\ \E draws \in RunDraws : RunMain("Continue Anyway", draws)

\* The user clicks Generate BOM.
PressGenerateBOM ==
    /\ run.status \in GenerateShown
    /\ form' = form
    /\ \E draws \in RunDraws : RunMain("Generate BOM", draws)

UINext == FillForm \/ PressContinueAnyway \/ PressGenerateBOM

SpecUI == Init /\ [][UINext]_vars

\* The page with a template whose first row differs, used by somebody who
\* means to get a BOM from it: the parent and Level 1 are filled in, and
\* every button the page offers is clicked sooner or later.
FillFormOnMismatch ==
    /\ form = DefaultForm
    /\ \E f \in Level1Forms, h \in MismatchedHeaders, draws \in RunDraws :
        /\ form' = [f EXCEPT !.headers = h]
        /\ RunMain("none", draws)

RecoverNext == FillFormOnMismatch \/ PressContinueAnyway \/ PressGenerateBOM

\* Weak fairness of PressContinueAnyway is written out: the action is
\* enabled exactly where the warning is shown, and it alone sets clicked to
\* "Continue Anyway".
SpecRecover ==
    /\ Init
    /\ [][RecoverNext]_vars
    /\ WF_vars(PressGenerateBOM)
    /\ \/ []<>(run.status # "header_mismatch")
       \/ []<><<clicked' = "Continue Anyway">>_vars


---------------------------------------------------------------------------
(* The command line as a state machine: each step is one run of generate.  *)

\* Each run is a process of its own: one run is followed from the start.
CliGenerate ==
    /\ cli.status = "idle"
    /\ \E parent_part \in CliParents, child_count \in 0..MaxCliChildren,
          headers \in {TEMPLATE_HEADERS} \cup MismatchedHeaders :
        \E answers \in [1..child_count -> CliAnswers] :
            cli' = generate(parent_part, child_count, headers, answers)
                   @@ [parent_part |-> parent_part,
                       child_count |-> child_count,
                       headers |-> headers, answers |-> answers]
    /\ UNCHANGED <<allocVars, genVars, uiVars, sheet, cmpVars, callVars>>

SpecCLI == Init /\ [][CliGenerate]_vars

---------------------------------------------------------------------------
(* The comparison as a state machine: a BOMComparison is constructed from  *)
(* two BOMs and the result lists given.                                    *)

\* BOMComparison(bom1, bom2, added_items, removed_items, modified_items,
\* unchanged_items)
NewComparison ==
    /\ ~comparison.made
    /\ \E bom1 \in SampleBOMs, bom2 \in SampleBOMs, supplied \in SampleSupplied :
        \E removed_order \in Orders(PartNumbers(bom1) \ PartNumbers(bom2)),
           added_order \in Orders(PartNumbers(bom2) \ PartNumbers(bom1)),
           common_order \in Orders(PartNumbers(bom1) \cap PartNumbers(bom2)) :
            comparison' =
                post_init(bom1, bom2, supplied, removed_order, added_order,
                          common_order)
                @@ [made |-> TRUE, bom1 |-> bom1, bom2 |-> bom2,
                    supplied |-> supplied]
    /\ UNCHANGED <<allocVars, genVars, uiVars, cliVars, callVars>>

SpecCompare == Init /\ [][NewComparison]_vars

\* A BOMComparison of two short BOMs, which grow afterwards.
NewShortComparison ==
    /\ ~comparison.made
    /\ \E bom1 \in ShortBOMs, bom2 \in ShortBOMs, supplied \in SampleSupplied :
        \E removed_order \in Orders(PartNumbers(bom1) \ PartNumbers(bom2)),
           added_order \in Orders(PartNumbers(bom2) \ PartNumbers(bom1)),
           common_order \in Orders(PartNumbers(bom1) \cap PartNumbers(bom2)) :
            comparison' =
                post_init(bom1, bom2, supplied, removed_order, added_order,
                          common_order)
                @@ [made |-> TRUE, bom1 |-> bom1, bom2 |-> bom2,
                    supplied |-> supplied]
    /\ UNCHANGED <<allocVars, genVars, uiVars, cliVars, callVars>>

\* bom1.add_item(item) or bom2.add_item(item) after the construction.
AddItem ==
    /\ comparison.made
    /\ \E which \in {1, 2}, item \in AddedItems :
        /\ Len(IF which = 1 THEN comparison.bom1 ELSE comparison.bom2)
               < MaxItems
        /\ comparison' = add_item(comparison, which, item)
    /\ UNCHANGED <<allocVars, genVars, uiVars, cliVars, callVars>>

SnapshotNext == NewShortComparison \/ AddItem

SpecSnapshot == Init /\ [][SnapshotNext]_vars

---------------------------------------------------------------------------
(* The program in use: a session works either on the page or with the      *)
(* command line.                                                           *)

OutputNext ==
    \/ cli.status = "idle" /\ UINext
    \/ lastOp = "init" /\ CliGenerate

SpecOutput == Init /\ [][OutputNext]_vars

---------------------------------------------------------------------------
(* append_row_by_headers called on a worksheet with rows of any content.   *)

\* A call that raised ended the program that made it.
AppendRowByHeaders ==
    /\ ~sheet.raised
    /\ Len(sheet.ws) < MaxSheetRows
    /\ \E row_data \in SampleRowData :
           sheet' = [before   |-> sheet.ws,
                     row_data |-> row_data,
                     called   |-> TRUE,
                     ws       |-> append_row_by_headers(sheet.ws,
                                      TEMPLATE_HEADERS, row_data).ws,
                     raised   |-> append_row_by_headers(sheet.ws,
                                      TEMPLATE_HEADERS, row_data).raised]
    /\ UNCHANGED <<allocVars, genVars, uiVars, cli, cmpVars, callVars>>

SpecAppend == Init /\ [][AppendRowByHeaders]_vars

---------------------------------------------------------------------------
(* BOM.get_item_by_part_number called on a BOM of any content.             *)

GetItemByPartNumber ==
    /\ ~lookup.called
    /\ \E items \in SampleBOMs, part_number \in LookupPartNumbers :
           lookup' = [called      |-> TRUE,
                      items       |-> items,
                      part_number |-> part_number,
                      result      |-> get_item_by_part_number(items,
                                                              part_number)]
    /\ UNCHANGED <<allocVars, genVars, uiVars, cliVars, cmpVars, prefixCall>>

SpecLookup == Init /\ [][GetItemByPartNumber]_vars

---------------------------------------------------------------------------
(* _prefix_from_index called with any index, twice.                        *)

PrefixFromIndex ==
    /\ prefixCall.calls < 2
    /\ \E i \in 0..MaxPrefixIndex :
           prefixCall' = [calls          |-> prefixCall.calls + 1,
                          i              |-> i,
                          prefix         |-> prefix_from_index(i),
                          earlier_i      |-> prefixCall.i,
                          earlier_prefix |-> prefixCall.prefix]
    /\ UNCHANGED <<allocVars, genVars, uiVars, cliVars, cmpVars, lookup>>

SpecPrefix == Init /\ [][PrefixFromIndex]_vars

---------------------------------------------------------------------------
(* The allocation loop of random_row_for_child entered with the counter at *)
(* several values, after a run of earlier allocator calls.                 *)

EarlierCallsUpTo ==
    /\ lastOp \in {"init", "reset"}
    /\ \E k \in RetryCounters \ {0} :
          /\ counter' = counter + k
          /\ allocs' = allocs + k
    /\ lastOp' = "discarded"
    /\ UNCHANGED <<lastPartNo, shortCalls, longCalls, returned, genVars, uiVars, cliVars, cmpVars, callVars>>

\* One call of random_row_for_child, up to the end of its loop.
AllocateForChild ==
    /\ lastOp \in {"init", "reset", "discarded"}
    /\ \E parent_partno \in RetryParents, use_long_partno \in BOOLEAN,
          longs \in [1..MaxAttempts -> LongDraws] :
          /\ use_long_partno \/ counter \div PerPrefix < MaxPrefixIndex
          /\ use_long_partno \/ \A k \in 1..MaxAttempts : longs[k] = longs[1]
          /\ LET r == AllocAttempts(counter, parent_partno, use_long_partno,
                                    longs, 0)
             IN  /\ genArgs' = [parent_partno |-> parent_partno,
                                count |-> 1,
                                use_long_partno |-> use_long_partno,
                                longs |-> longs,
                                counter |-> counter,
                                again |-> r.again]
                 /\ genRetries' = <<r.retries>>
                 /\ lastPartNo' = r.partno
                 /\ counter' = r.counter
                 /\ allocs' = allocs + (r.counter - counter)
    /\ genRows' = <<>>
    /\ lastOp' = "allocated"
    /\ UNCHANGED <<shortCalls, longCalls, returned, uiVars, cliVars, cmpVars, callVars>>

RetryNext == ResetPartNumberCounter \/ EarlierCallsUpTo \/ AllocateForChild

SpecRetry == Init /\ [][RetryNext]_vars
---------------------------------------------------------------------------
(* Claims about the allocator.                                             *)

\* The part number the documentation gives for the k-th number of a letter.
ExpectedPartNo(letter, k) ==
    letter \o Digits[(k \div 100) + 1] \o Digits[((k \div 10) % 10) + 1]
           \o Digits[(k % 10) + 1]

\* The latest call ends a run of get_next_partno() calls only since the
\* reset; it is the shortCalls-th of them.
ShortCallsOnly == lastOp = "short" /\ longCalls = 0

NthShortCall(n) == ShortCallsOnly /\ shortCalls = n

\* C2: after reset_part_number_counter(), the k-th call of get_next_partno(),
\* for k = 1..999, returns "A" followed by k as three digits: A001 .. A999.
C2_First999 ==
    (ShortCallsOnly /\ shortCalls \in 1..999)
        => lastPartNo = ExpectedPartNo("A", shortCalls)

C2_Witness == NthShortCall(999) /\ lastPartNo = "A999"

\* C3: after reset_part_number_counter(), the 1000th call of
\* get_next_partno() returns "B001".
C3_Thousandth == NthShortCall(1000) => lastPartNo = "B001"

\* C4 as stated: the 27001st call of get_next_partno() after a reset
\* returns "AA001".
C4_Original == NthShortCall(27001) => lastPartNo = "AA001"

\* C4 amended: the 26001st call of get_next_partno() after a reset returns
\* "AA001", and every call before it returned a number with a one-letter
\* prefix (its second character is a digit): AA follows the 26 letters.
C4_AAFollowsZ ==
    /\ NthShortCall(26001) => lastPartNo = "AA001"
    /\ (ShortCallsOnly /\ shortCalls \in 1..26000)
          => \E d \in 1..10 : SubSeq(lastPartNo, 2, 2) = Digits[d]

C4_Witness == NthShortCall(26001) /\ lastPartNo = "AA001"

\* C5: between two resets all returned part numbers are pairwise distinct,
\* and the counter has advanced by exactly one per allocation.
C5_Unique ==
    /\ \A i, j \in 1..Len(returned) : i # j => returned[i] # returned[j]
    /\ counter = allocs


---------------------------------------------------------------------------
(* Claims about the random row generator.                                  *)

\* A random_child_rows call has just returned genRows.
RowsReturned == lastOp = "rows"

\* C1: random_child_rows(p, n, ...) returns exactly n rows and no returned
\* row has PartNo equal to p, in short and long form, at every counter.
C1_CountAndNoParent ==
    RowsReturned =>
        /\ Len(genRows) = genArgs.count
        /\ \A i \in 1..Len(genRows) :
              Get(genRows[i], "PartNo") # S(genArgs.parent_partno)

\* A batch in which an allocation hit the parent's number and was retried.
C1_Witness ==
    /\ RowsReturned
    /\ genArgs.count = 2
    /\ Len(genRows) = 2
    /\ \E i \in 1..2 :
          /\ genRetries[i] > 0
          /\ "PartNo" \in DOMAIN genRows[i]

\* C6: the keys of a row of random_row_for_child are fields_to_populate
\* intersected with the 27 schema columns when fields_to_populate is
\* non-empty, and all 27 columns when it is empty or None.
C6_RowKeys ==
    RowsReturned =>
        \A i \in 1..Len(genRows) :
            DOMAIN genRows[i] =
                IF \/ genArgs.fields_to_populate = NoFields
                   \/ genArgs.fields_to_populate = Fields({})
                THEN Range(TEMPLATE_HEADERS)
                ELSE {k \in Range(TEMPLATE_HEADERS) :
                        \E given \in genArgs.fields_to_populate : k \in given}

\* A row built from a subset that also names a field outside the schema.
C6_Witness ==
    /\ RowsReturned
    /\ genArgs.fields_to_populate = Fields({"PartNo", "Bogus"})
    /\ Len(genRows) > 0
    /\ DOMAIN genRows[1] = {"PartNo"}



---------------------------------------------------------------------------
(* Claims about the Generate BOM run of the page.                          *)

\* The latest run of main() went through the Generate BOM branch.
Generated == run.status \in {"errors", "written", "write_exception"}

\* The column of the sheet under a header.
Col(h) == CHOOSE n \in 1..Len(form.headers) : form.headers[n] = h

\* The data rows of the written sheet whose Level cell is level, in order.
SheetRowsOfLevel(level) ==
    LET AtLevel(cells) == cells[Col("Level")] = N(level)
    IN  SelectSeq(run.ws, AtLevel)

\* The rows of the lower levels as the run left them, in writing order.
LowerRows == run.child_data \o run.level2_rows \o run.level3_rows

SelfParent(row) == Get(row, "PartNo") = Get(row, "Parent")

\* C7: in every written BOM, for each of Level 1, 2 and 3, the k-th row of
\* the level in the sheet has Sequence k * sequence_increment.
C7_SequencePerLevel ==
    run.status = "written" =>
        \A level \in 1..3 :
            LET rows == SheetRowsOfLevel(level)
            IN  \A k \in 1..Len(rows) :
                    rows[k][Col("Sequence")] = N(k * form.sequence_increment)

\* A written BOM whose increment is not the generator's 100, with random
\* and manual rows at Level 2 and several rows at Level 3.
C7_Witness ==
    /\ run.status = "written"
    /\ form.sequence_increment # 100
    /\ form.l2.per.use /\ form.l2.num_groups > 0
    /\ Len(SheetRowsOfLevel(1)) >= 2
    /\ Len(SheetRowsOfLevel(2)) >= 3
    /\ Len(SheetRowsOfLevel(3)) >= 2

\* C8: a Level 1, 2 or 3 row whose PartNo equals its Parent is written all
\* the same, with the Parent cell empty; no row below the top has the
\* same PartNo and Parent cell, and no run ends with the writer refusing
\* a row.
C8_SelfParentCleared ==
    /\ run.status # "write_exception"
    /\ run.status = "written" =>
        /\ Len(run.ws) = 1 + Len(LowerRows)
        /\ \A n \in 1..Len(LowerRows) :
            /\ run.ws[n + 1][Col("PartNo")] = LowerRows[n]["PartNo"]
            /\ SelfParent(LowerRows[n]) =>
                   run.ws[n + 1][Col("Parent")] = S("")
            /\ run.ws[n + 1][Col("PartNo")] # run.ws[n + 1][Col("Parent")]

\* A written BOM with a self-parented row at Level 2 and at Level 3.
C8_Witness ==
    /\ run.status = "written"
    /\ \E n \in 1..Len(run.level2_rows) : SelfParent(run.level2_rows[n])
    /\ \E n \in 1..Len(run.level3_rows) : SelfParent(run.level3_rows[n])

\* Category "P" => Source in {"M", "F"}, and Category "X" => Source "P".
RuleHolds(row) ==
    /\ Get(row, "Category") = S("P") => Get(row, "Source") \in {S("M"), S("F")}
    /\ Get(row, "Category") = S("X") => Get(row, "Source") = S("P")

\* The rows of a level as the run left them; level 0 is the parent part.
RowsOfLevel(level) ==
    CASE level = 0 -> IF IsNoRow(run.parent_row) THEN <<>> ELSE <<run.parent_row>>
      [] level = 1 -> run.child_data
      [] level = 2 -> run.level2_rows
      [] level = 3 -> run.level3_rows

\* The entries of the error list appended for the row of a level.
EntriesFor(level, index) ==
    {n \in 1..Len(run.errors) :
        run.errors[n].level = level /\ run.errors[n].index = index}

\* The values Category and Source can hold in a row.
CategoryValues == {None} \cup {S(CATEGORY_OPTIONS[n][2]) : n \in 1..Len(CATEGORY_OPTIONS)} \cup {S("Y")}
SourceValues == {None} \cup {S(SOURCE_OPTIONS[n][2]) : n \in 1..Len(SOURCE_OPTIONS)} \cup Range([n \in 1..Len(SOURCES) |-> S(SOURCES[n])])

\* C9: every row of a Generate BOM run keeps the category/source rule or
\* has an entry in the run's error list; an entry that reports a Source
\* is for a row whose Category is "P" (Phantom) or "X" (Exclude), and the
\* rule reports no Source for any other Category.
C9_RuleOrReported ==
    /\ Generated =>
        /\ \A level \in 0..3 : \A k \in 1..Len(RowsOfLevel(level)) :
               RuleHolds(RowsOfLevel(level)[k]) \/ EntriesFor(level, k) # {}
        /\ \A n \in 1..Len(run.errors) :
               LET e == run.errors[n]
                   row == RowsOfLevel(e.level)[e.index]
               IN  /\ e.rule = "Phantom" => Get(row, "Category") = S("P")
                   /\ e.rule = "Exclude" => Get(row, "Category") = S("X")
    /\ \A category \in CategoryValues \ {S("P"), S("X")} :
           \A source \in SourceValues :
               validate_category_source(category, source) = NoError

\* A run that reports a broken rule at Level 1 or below while the parent
\* part and a row of Category "R" are not reported.
C9_Witness ==
    /\ run.status = "errors"
    /\ \E n \in 1..Len(run.errors) :
           run.errors[n].rule \in {"Phantom", "Exclude"} /\ run.errors[n].level >= 1
    /\ \E k \in 1..Len(run.child_data) :
           /\ Get(run.child_data[k], "Category") = S("R")
           /\ EntriesFor(1, k) = {}
    /\ \E level \in 2..3 : \E k \in 1..Len(RowsOfLevel(level)) :
           ~RuleHolds(RowsOfLevel(level)[k])

\* The manual rows the Level 2 and Level 3 sections of the run configured.
ConfiguredRows(level) ==
    LET l2sec == Level2Section(form, run.child_data)
    IN  IF level = 2 THEN ManualRowsOf(l2sec.config)
        ELSE ManualRowsOf(Level3Section(form, run.child_data, l2sec.config).config)

\* Every violation of a row the run lists has its own entry.
EveryViolationOfListedRows ==
    \A level \in 0..3 : \A k \in 1..Len(RowsOfLevel(level)) :
        LET row == RowsOfLevel(level)[k]
        IN  /\ (level >= 1 /\ MissingFields(row) # {}) =>
                   \E n \in EntriesFor(level, k) : run.errors[n].rule = "Missing"
            /\ ~RuleHolds(row) =>
                   \E n \in EntriesFor(level, k) :
                       run.errors[n].rule \in {"Phantom", "Exclude"}

\* Every manual Level 2 or 3 part entered without a PartNo or against the
\* category/source rule has an entry.
EveryConfiguredRowReported ==
    \A level \in 2..3 : \A k \in 1..Len(ConfiguredRows(level)) :
        LET row == ConfiguredRows(level)[k]
        IN  (IsBlank(row["PartNo"]) \/ ~RuleHolds(row)) =>
                \E n \in 1..Len(run.errors) :
                    /\ run.errors[n].level = level
                    /\ run.errors[n].label = "Part " \o PyStr(row["PartNo"])

\* C10: a Generate BOM run reports every violation of every row in one
\* batch: a row of any level that misses a required field or breaks the
\* category/source rule has an entry for it in the run's error list,
\* whatever else is wrong with it or with other rows.
C10_AllReported ==
    Generated => EveryViolationOfListedRows /\ EveryConfiguredRowReported

---------------------------------------------------------------------------
(* Output only after validation.                                           *)

\* The rows the command line built from the answers all pass the
\* required-field check of append_row_by_headers.
CliRowsPassed ==
    \A i \in 0..(cli.child_count - 1) :
        /\ cli.answers[i + 1].qty \in DOMAIN FloatValue
        /\ \A h \in REQUIRED_FIELDS :
               ~is_missing(CliRow(cli.parent_part, i, cli.answers[i + 1]), h)

\* C11: output is persisted only after validation ended with no error.  On
\* the page, a run of Generate BOM whose error list is not empty builds and
\* offers no workbook, and a workbook is offered only with an empty error
\* list; on the command line, the file is saved only when every child row
\* passed the required-field check, it then holds a row for every child,
\* and a run that raised has saved nothing.
C11_OutputAfterValidation ==
    /\ run.errors # <<>> => run.status = "errors" /\ run.ws = <<>>
    /\ run.ws # <<>> => run.status = "written" /\ run.errors = <<>>
    /\ cli.saved => /\ cli.status = "saved"
                    /\ CliRowsPassed
                    /\ Len(cli.file) = cli.child_count
    /\ cli.status \in {"ValueError", "RuntimeError"} =>
           ~cli.saved /\ cli.file = <<>>

\* Generate BOM was pressed on a form with errors at Level 2 or 3, found
\* after the rows were assembled: they are shown and nothing is offered.
C11_Witness ==
    /\ run.status = "errors"
    /\ run.errors # <<>>
    /\ run.level2_rows # <<>>
    /\ run.ws = <<>>

---------------------------------------------------------------------------
(* Gating of Level 2 and Level 3.                                          *)

\* The latest run of main() reached the Level 1 section and what follows.
PageShown == run.status \in {"form", "errors", "written", "write_exception"}

\* Some row of rows holds pno as PartNo and a manufactured Source.
ManufacturedPart(rows, pno) ==
    \E n \in 1..Len(rows) :
        /\ rows[n]["PartNo"] = pno
        /\ Get(rows[n], "Source") \in {S("M"), S("F")}

\* No row of rows has a manufactured Source.
NoneManufactured(rows) ==
    \A n \in 1..Len(rows) : Get(rows[n], "Source") \notin {S("M"), S("F")}

\* Every Level 2 row of a written BOM has as Parent the PartNo of a Level 1
\* row whose Source is "M" or "F".
Level2ParentsManufactured ==
    run.status = "written" =>
        \A n \in 1..Len(run.level2_rows) :
            ManufacturedPart(run.child_data, Get(run.level2_rows[n], "Parent"))

\* The Level 2 section configures nothing: no groups, and no random parts
\* for each Level 1 part.
Level2Closed ==
    /\ Level2Section(form, run.child_data).config = <<>>
    /\ ~Level2Section(form, run.child_data).random_per.use

WithPartNo(rows) ==
    LET HasPartNo(r) == Truthy(Get(r, "PartNo"))
    IN  SelectSeq(rows, HasPartNo)

Level3ParentsManufactured ==
    run.status = "written" =>
        \A n \in 1..Len(run.level3_rows) :
            ManufacturedPart(run.level2_rows, Get(run.level3_rows[n], "Parent"))

\* The Level 3 widgets of the form ask for Level 3 parts: groups, or random
\* parts under each manufactured Level 2 part.
Level3Asked == form.l3.num_groups > 0 \/ form.l3.per.use

\* The run told the user that Level 3 parts cannot be added.
Level3Reported == run.notices \cap {"block_l3", "l3_needs_manual_l2"} # {}

\* C13: every Level 3 row of a written BOM hangs under a manufactured
\* Level 2 row, and whenever a BOM is generated whose Level 2 rows, typed or
\* random, include none with Source "M" or "F" while Level 3 parts were
\* asked for, the run reports that Level 3 is blocked instead of silently
\* producing no Level 3 row.
C13_Level3Gating ==
    /\ Level3ParentsManufactured
    /\ run.status = "written" /\ NoneManufactured(run.level2_rows)
                              /\ Level3Asked
           => Level3Reported

---------------------------------------------------------------------------
(* Revision and Location applied to all parts.                             *)

\* An empty cell and an empty text are both blank.
CellText(v) == IF v = None THEN S("") ELSE v

\* The rows of the sheet below the parent's.
LowerSheetRows == SubSeq(run.ws, 2, Len(run.ws))

\* The cell of every lower row under header h holds what the parent's row
\* holds there.
AllAsParent(h) ==
    \A n \in 1..Len(LowerSheetRows) :
        CellText(LowerSheetRows[n][Col(h)]) = CellText(run.ws[1][Col(h)])

\* The texts of the Revision and Location boxes of a manual part.
TypedText(h, w) ==
    IF h = "Revision" THEN RevisionText(form, w) ELSE LocationText(form, w)

\* The cell of every lower row under header h holds what the row was built
\* with: the text of its box for a part entered by hand, nothing for a
\* random part.
AllAsBuilt(h) ==
    /\ ~form.use_random_children =>
           \A n \in 1..Len(form.children) :
               CellText(SheetRowsOfLevel(1)[n][Col(h)])
                   = S(TypedText(h, form.children[n]))
    /\ form.use_random_children =>
           \A n \in 1..Len(SheetRowsOfLevel(1)) :
               CellText(SheetRowsOfLevel(1)[n][Col(h)]) = S("")
    /\ \A level \in 2..3 :
           /\ \A n \in 1..Len(SheetRowsOfLevel(level)) :
                  \/ CellText(SheetRowsOfLevel(level)[n][Col(h)]) = S("")
                  \/ \E m \in 1..Len(ConfiguredRows(level)) :
                         /\ ConfiguredRows(level)[m]["PartNo"]
                                = SheetRowsOfLevel(level)[n][Col("PartNo")]
                         /\ CellText(ConfiguredRows(level)[m][h])
                                = SheetRowsOfLevel(level)[n][Col(h)]
           /\ \A m \in 1..Len(ConfiguredRows(level)) :
                  \E n \in 1..Len(SheetRowsOfLevel(level)) :
                      /\ ConfiguredRows(level)[m]["PartNo"]
                             = SheetRowsOfLevel(level)[n][Col("PartNo")]
                      /\ CellText(ConfiguredRows(level)[m][h])
                             = CellText(SheetRowsOfLevel(level)[n][Col(h)])

\* C14: in every written BOM, with the apply-Revision-to-all flag set every
\* Level 1, 2 and 3 row holds the parent row's Revision (blank when that is
\* blank), whatever was typed or generated, and with the flag not set every
\* row holds the Revision it was built with; likewise for Location.
C14_AppliedToAll ==
    run.status = "written" =>
        /\ run.ws[1][Col("Revision")] = S(form.parent_revision)
        /\ run.ws[1][Col("Location")] = S(form.parent_location)
        /\ IF form.apply_revision_to_all
           THEN AllAsParent("Revision") ELSE AllAsBuilt("Revision")
        /\ IF form.apply_location_to_all
           THEN AllAsParent("Location") ELSE AllAsBuilt("Location")

\* A written BOM with the parent's Location applied to all and its
\* Revision not: a part entered by hand with its own Revision and Location
\* typed, and random Level 2 rows.
C14_Witness ==
    /\ run.status = "written"
    /\ form.apply_location_to_all /\ form.parent_location # ""
    /\ ~form.apply_revision_to_all /\ form.parent_revision # ""
    /\ ~form.use_random_children
    /\ \E n \in 1..Len(form.children) : form.children[n].typed
    /\ \E n \in 1..Len(run.level2_rows) :
           run.level2_rows[n]["PartNo"]
               \notin {ConfiguredRows(2)[m]["PartNo"] :
                          m \in 1..Len(ConfiguredRows(2))}

---------------------------------------------------------------------------
(* The order of the rows of the sheet.                                     *)

\* The groups the Level 2 or Level 3 section of the run configured.
SectionConfig(level) ==
    IF level = 2 THEN Level2Section(form, run.child_data).config
    ELSE Level3Section(form, run.child_data,
                       Level2Section(form, run.child_data).config).config

\* The rows a group gives: count random rows, or its manual rows.
GroupSize(cfg) == IF cfg.random THEN cfg.count ELSE Len(cfg.manual_rows)

\* The rows of the groups from the i-th on.
RECURSIVE SizeFrom(_, _)
SizeFrom(config, i) ==
    IF i > Len(config) THEN 0
    ELSE GroupSize(config[i]) + SizeFrom(config, i + 1)

\* The rows of a level that come before those of its i-th group.
GroupStart(level, i) ==
    Len(RowsOfLevel(level)) - SizeFrom(SectionConfig(level), i)

\* The rows of a level end with those of its groups, group after group,
\* each group's rows together under the group's parent and, for a group
\* entered by hand, in the order of entry.
GroupByGroup(level) ==
    /\ GroupStart(level, 1) >= 0
    /\ \A i \in 1..Len(SectionConfig(level)) :
           \A j \in 1..GroupSize(SectionConfig(level)[i]) :
               /\ RowsOfLevel(level)[GroupStart(level, i) + j]["Parent"]
                      = SectionConfig(level)[i].parent
               /\ ~SectionConfig(level)[i].random =>
                      SheetRowsOfLevel(level)[GroupStart(level, i) + j][Col("PartNo")]
                          = SectionConfig(level)[i].manual_rows[j]["PartNo"]

\* The sheet holds the parent's row and then the rows of Level 1, 2 and 3
\* in the order in which the run holds them.
SheetInOrder ==
    /\ Len(run.ws) = 1 + Len(run.child_data) + Len(run.level2_rows)
                       + Len(run.level3_rows)
    /\ run.ws[1][Col("Level")] = N(0)
    /\ run.ws[1][Col("PartNo")] = S(form.parent_partno)
    /\ \A k \in 1..Len(LowerRows) :
           /\ run.ws[1 + k][Col("PartNo")] = LowerRows[k]["PartNo"]
           /\ run.ws[1 + k][Col("Level")] =
                  N(IF k <= Len(run.child_data) THEN 1
                    ELSE IF k <= Len(run.child_data) + Len(run.level2_rows)
                         THEN 2 ELSE 3)
    /\ \A k \in 1..(Len(run.ws) - 1) :
           run.ws[k][Col("Level")][2] <= run.ws[k + 1][Col("Level")][2]

\* C15: the data rows of a written sheet are one top-level row, then the
\* Level 1 rows in entry order, then the Level 2 rows group by group in
\* entry order, then the Level 3 rows likewise; the Level column never
\* decreases down the sheet and there are 1 + |L1| + |L2| + |L3| rows.
C15_RowsInOrder ==
    run.status = "written" =>
        /\ SheetInOrder
        /\ ~form.use_random_children =>
               \A k \in 1..Len(form.children) :
                   run.ws[1 + k][Col("PartNo")] = S(form.children[k].partno)
        /\ GroupByGroup(2)
        /\ GroupByGroup(3)

\* A written BOM with two parts at Level 1, random parts under a Level 1
\* part followed by a group of two parts entered by hand at Level 2, and
\* rows at Level 3.
C15_Witness ==
    /\ run.status = "written"
    /\ Len(run.child_data) = 2
    /\ Len(SectionConfig(2)) = 1
    /\ Len(SectionConfig(2)[1].manual_rows) = 2
    /\ GroupStart(2, 1) > 0
    /\ run.level3_rows # <<>>

---------------------------------------------------------------------------
(* The top-level row.                                                      *)

---------------------------------------------------------------------------
(* Levels and parents.                                                     *)

---------------------------------------------------------------------------
(* append_row_by_headers.                                                  *)

\* The value of a field of the latest call's row is present and not empty.
Filled(h) == Get(sheet.row_data, h) \notin {None, S(""), EmptyList}

\* The latest call appended its row: the sheet is the one before the call
\* and the row's values in header order.
RowAppended ==
    /\ ~sheet.raised
    /\ sheet.ws = Append(sheet.before,
                         [n \in 1..Len(TEMPLATE_HEADERS) |->
                             Get(sheet.row_data, TEMPLATE_HEADERS[n])])

\* The latest call raised and left the sheet as it was.
RowRefused == sheet.raised /\ sheet.ws = sheet.before

\* C18 as stated: a call appends only a row whose PartNo, Quantity, Parent
\* and Sequence are all present and not empty, and otherwise raises and
\* appends nothing; an empty Parent is accepted only in the top-level row
\* (Level 0), never in a row of Level 1, 2 or 3, and a Parent that is None
\* or absent never.
C18_RequiredFields ==
    sheet.called =>
        /\ RowAppended \/ RowRefused
        /\ RowAppended =>
               /\ Filled("PartNo") /\ Filled("Quantity") /\ Filled("Sequence")
               /\ \/ Filled("Parent")
                  \/ /\ Get(sheet.row_data, "Parent") = S("")
                     /\ Get(sheet.row_data, "Level") = N(0)

\* C18 with the empty Parent accepted in any row: a call appends the row
\* exactly when PartNo, Quantity and Sequence are present and not empty and
\* Parent is a text, empty or not (neither None, absent nor an empty
\* list), whatever the row's Level; otherwise it raises and appends
\* nothing.
C18_RequiredFieldsEmptyParent ==
    sheet.called =>
        /\ RowAppended \/ RowRefused
        /\ RowAppended <=>
               /\ Filled("PartNo") /\ Filled("Quantity") /\ Filled("Sequence")
               /\ Filled("Parent") \/ Get(sheet.row_data, "Parent") = S("")

\* A Level 1 row with an empty Parent was appended under a first row.
C18_Witness ==
    /\ sheet.called
    /\ RowAppended
    /\ Len(sheet.before) = 1
    /\ Get(sheet.row_data, "Parent") = S("")
    /\ Get(sheet.row_data, "Level") = N(1)

---------------------------------------------------------------------------
(* The comparison of two BOMs.                                             *)

\* A BOMComparison was constructed with its four result lists empty.
ComputedFromEmpty ==
    /\ comparison.made
    /\ comparison.supplied = Supplied(<<>>, <<>>, <<>>, <<>>)

\* The part numbers of a list of items.
PartNumbersOf(items) == {items[n].part_number : n \in 1..Len(items)}

\* C19: for a BOMComparison constructed with empty result lists, the part
\* numbers of removed_items are exactly those of bom1 that bom2 lacks and
\* the part numbers of added_items exactly those of bom2 that bom1 lacks;
\* every removed item is an item of bom1 and every added item an item of
\* bom2.
C19_AddedAndRemoved ==
    ComputedFromEmpty =>
        /\ PartNumbersOf(comparison.removed_items)
               = PartNumbersOf(comparison.bom1) \ PartNumbersOf(comparison.bom2)
        /\ PartNumbersOf(comparison.added_items)
               = PartNumbersOf(comparison.bom2) \ PartNumbersOf(comparison.bom1)
        /\ Range(comparison.removed_items) \subseteq Range(comparison.bom1)
        /\ Range(comparison.added_items) \subseteq Range(comparison.bom2)

\* BOM1 = {P1, P2} compared with BOM2 = {P2, P3}: P1 removed, P3 added.
C19_Witness ==
    /\ ComputedFromEmpty
    /\ PartNumbersOf(comparison.bom1) = {"P1", "P2"}
    /\ PartNumbersOf(comparison.bom2) = {"P2", "P3"}
    /\ PartNumbersOf(comparison.removed_items) = {"P1"}
    /\ PartNumbersOf(comparison.added_items) = {"P3"}

\* The part numbers that occur once in bom1 and once in bom2.
OnceInBoth ==
    {p \in PartNumbersOf(comparison.bom1) \cap PartNumbersOf(comparison.bom2) :
        /\ Cardinality({n \in 1..Len(comparison.bom1) :
                           comparison.bom1[n].part_number = p}) = 1
        /\ Cardinality({n \in 1..Len(comparison.bom2) :
                           comparison.bom2[n].part_number = p}) = 1}

\* The item of a BOM with a part number that occurs once in it.
ItemOf(bom, p) == CHOOSE item \in Range(bom) : item.part_number = p

\* C20: for a BOMComparison constructed with empty result lists and every
\* part number that both BOMs hold (once each), the pair of bom1's and
\* bom2's item is in modified_items exactly when the two differ in
\* quantity, description or unit, and bom1's item is in unchanged_items
\* exactly when they do not; a difference in reference_designator or notes
\* alone leaves the pair unchanged.
C20_ModifiedOrUnchanged ==
    ComputedFromEmpty =>
        \A p \in OnceInBoth :
            LET item1 == ItemOf(comparison.bom1, p)
                item2 == ItemOf(comparison.bom2, p)
                differ == \/ item1.quantity # item2.quantity
                          \/ item1.description # item2.description
                          \/ item1.unit # item2.unit
            IN  /\ <<item1, item2>> \in Range(comparison.modified_items)
                       <=> differ
                /\ item1 \in Range(comparison.unchanged_items) <=> ~differ
                /\ p \in PartNumbersOf(comparison.unchanged_items) <=> ~differ

\* P1 differs in quantity and is modified, P2 differs in its reference
\* designator only and is unchanged.
C20_Witness ==
    /\ ComputedFromEmpty
    /\ OnceInBoth = {"P1", "P2"}
    /\ ItemOf(comparison.bom1, "P2") # ItemOf(comparison.bom2, "P2")
    /\ ItemOf(comparison.bom1, "P2") \in Range(comparison.unchanged_items)
    /\ <<ItemOf(comparison.bom1, "P1"), ItemOf(comparison.bom2, "P1")>>
           \in Range(comparison.modified_items)

\* The part numbers of the pairs of modified_items.
PartNumbersOfPairs(pairs) == {pairs[n][1].part_number : n \in 1..Len(pairs)}

\* C21: for a BOMComparison constructed with empty result lists, the part
\* numbers of added_items, removed_items, modified_items (pairs) and
\* unchanged_items are four pairwise disjoint sets whose union is the set
\* of part numbers of bom1 or bom2, the two items of a pair share their
\* part number, and no part number occurs twice across the four lists,
\* duplicate part numbers within a BOM included.
C21_Partition ==
    ComputedFromEmpty =>
        LET added == PartNumbersOf(comparison.added_items)
            removed == PartNumbersOf(comparison.removed_items)
            modified == PartNumbersOfPairs(comparison.modified_items)
            unchanged == PartNumbersOf(comparison.unchanged_items)
        IN  /\ added \cap removed = {}
            /\ added \cap modified = {}
            /\ added \cap unchanged = {}
            /\ removed \cap modified = {}
            /\ removed \cap unchanged = {}
            /\ modified \cap unchanged = {}
            /\ added \cup removed \cup modified \cup unchanged
                   = PartNumbersOf(comparison.bom1)
                         \cup PartNumbersOf(comparison.bom2)
            /\ \A n \in 1..Len(comparison.modified_items) :
                   comparison.modified_items[n][1].part_number
                       = comparison.modified_items[n][2].part_number
            /\ Len(comparison.added_items) + Len(comparison.removed_items)
                   + Len(comparison.modified_items)
                   + Len(comparison.unchanged_items)
                   = Cardinality(PartNumbersOf(comparison.bom1)
                                     \cup PartNumbersOf(comparison.bom2))

\* bom1 holds one part number twice and bom2 two part numbers, one of them
\* new: one removed item and two added ones.
C21_Witness ==
    /\ ComputedFromEmpty
    /\ Len(comparison.bom1) = 2
    /\ Cardinality(PartNumbersOf(comparison.bom1)) = 1
    /\ Len(comparison.removed_items) = 1
    /\ Len(comparison.added_items) = 2

\* The last item of a BOM with the part number p.
LastItem(bom, p) ==
    bom[CHOOSE i \in 1..Len(bom) :
           /\ bom[i].part_number = p
           /\ \A j \in 1..Len(bom) : bom[j].part_number = p => j <= i]

\* C22: when a BOM holds several items with one part number, every
\* classification uses the last of them: a removed item is the last item
\* of bom1 with its part number, an added item the last of bom2, a
\* modified pair is the pair of the two last items and is there exactly
\* when these differ in quantity, description or unit, and an unchanged
\* item is the last of bom1.
C22_LastItemWins ==
    ComputedFromEmpty =>
        /\ \A n \in 1..Len(comparison.removed_items) :
               comparison.removed_items[n]
                   = LastItem(comparison.bom1,
                              comparison.removed_items[n].part_number)
        /\ \A n \in 1..Len(comparison.added_items) :
               comparison.added_items[n]
                   = LastItem(comparison.bom2,
                              comparison.added_items[n].part_number)
        /\ \A p \in PartNumbersOf(comparison.bom1)
                        \cap PartNumbersOf(comparison.bom2) :
               LET item1 == LastItem(comparison.bom1, p)
                   item2 == LastItem(comparison.bom2, p)
                   differ == \/ item1.quantity # item2.quantity
                             \/ item1.description # item2.description
                             \/ item1.unit # item2.unit
               IN  /\ differ =>
                          /\ <<item1, item2>>
                                 \in Range(comparison.modified_items)
                          /\ p \notin PartNumbersOf(comparison.unchanged_items)
                   /\ ~differ =>
                          /\ item1 \in Range(comparison.unchanged_items)
                          /\ p \notin
                                 PartNumbersOfPairs(comparison.modified_items)
        /\ \A n \in 1..Len(comparison.modified_items) :
               /\ comparison.modified_items[n][1]
                      = LastItem(comparison.bom1,
                                 comparison.modified_items[n][1].part_number)
               /\ comparison.modified_items[n][2]
                      = LastItem(comparison.bom2,
                                 comparison.modified_items[n][2].part_number)
        /\ \A n \in 1..Len(comparison.unchanged_items) :
               comparison.unchanged_items[n]
                   = LastItem(comparison.bom1,
                              comparison.unchanged_items[n].part_number)

\* bom1 holds P1 twice, first with another quantity and last as bom2 has
\* it: P1 is unchanged, and the earlier item is in no list.
C22_Witness ==
    /\ ComputedFromEmpty
    /\ Len(comparison.bom1) = 2
    /\ comparison.bom1[1].part_number = comparison.bom1[2].part_number
    /\ comparison.bom1[1].quantity # comparison.bom1[2].quantity
    /\ comparison.bom2 = <<comparison.bom1[2]>>
    /\ comparison.unchanged_items = <<comparison.bom1[2]>>
    /\ comparison.modified_items = <<>>

\* The four result lists of a record.
ResultLists(r) ==
    <<r.added_items, r.removed_items, r.modified_items, r.unchanged_items>>

\* C29: the constructor computes the partitions exactly when the supplied
\* added_items, removed_items and modified_items are all empty, and then
\* the four lists are those of the comparison of bom1 with bom2, a
\* supplied unchanged_items being replaced; otherwise the four lists are
\* the supplied ones.
C29_ComputedOnlyFromEmpty ==
    comparison.made =>
        IF /\ comparison.supplied.added_items = <<>>
           /\ comparison.supplied.removed_items = <<>>
           /\ comparison.supplied.modified_items = <<>>
        THEN /\ PartNumbersOf(comparison.removed_items)
                    = PartNumbersOf(comparison.bom1)
                          \ PartNumbersOf(comparison.bom2)
             /\ PartNumbersOf(comparison.added_items)
                    = PartNumbersOf(comparison.bom2)
                          \ PartNumbersOf(comparison.bom1)
             /\ PartNumbersOfPairs(comparison.modified_items)
                    \cup PartNumbersOf(comparison.unchanged_items)
                    = PartNumbersOf(comparison.bom1)
                          \cap PartNumbersOf(comparison.bom2)
             /\ Range(comparison.unchanged_items)
                    \subseteq Range(comparison.bom1)
        ELSE ResultLists(comparison) = ResultLists(comparison.supplied)

\* unchanged_items alone was supplied, with an item of neither BOM, and
\* the constructor replaced it by the computed list.
C29_Witness ==
    /\ comparison.made
    /\ comparison.supplied.unchanged_items # <<>>
    /\ comparison.supplied.added_items = <<>>
    /\ comparison.supplied.removed_items = <<>>
    /\ comparison.supplied.modified_items = <<>>
    /\ comparison.bom1 # <<>>
    /\ comparison.unchanged_items = comparison.bom1
    /\ Range(comparison.supplied.unchanged_items)
           \cap Range(comparison.unchanged_items) = {}

\* C23: a BOMComparison is a snapshot: no BOM.add_item on bom1 or bom2
\* after the construction changes added_items, removed_items,
\* modified_items or unchanged_items.
C23_Snapshot ==
    [][comparison.made => ResultLists(comparison') = ResultLists(comparison)]_vars

\* A comparison computed from empty lists whose bom2 has since received an
\* item with a part number bom1 lacks: the item is not in added_items.
C23_Witness ==
    /\ ComputedFromEmpty
    /\ Len(comparison.bom2) = MaxItems
    /\ \E p \in PartNumbersOf(comparison.bom2) :
           /\ p \notin PartNumbersOf(comparison.bom1)
           /\ p \notin PartNumbersOf(comparison.added_items)

---------------------------------------------------------------------------
(* The lookup of an item by its part number.                               *)

\* The positions of the items of the looked-up BOM with the part number.
Positions ==
    {i \in 1..Len(lookup.items) :
        lookup.items[i].part_number = lookup.part_number}

\* No part number occurs twice in the looked-up BOM.
UniquePartNumbers ==
    Cardinality(PartNumbersOf(lookup.items)) = Len(lookup.items)

\* C30: get_item_by_part_number(p) returns None exactly when no item of
\* the BOM has the part number p, and otherwise the earliest item with it;
\* when no part number occurs twice in the BOM, it returns the item the
\* lookup of the diff engine holds for p.
C30_EarliestItem ==
    lookup.called =>
        /\ lookup.result = None <=> Positions = {}
        /\ Positions # {} =>
               \E i \in Positions :
                   /\ \A j \in Positions : i <= j
                   /\ lookup.result = Item(lookup.items[i])
        /\ (UniquePartNumbers /\ Positions # {}) =>
               lookup.result = Item(ItemDict(lookup.items)[lookup.part_number])

\* The BOM holds the part number twice with different quantities: the
\* first item is returned, where the diff engine's lookup holds the second.
C30_Witness ==
    /\ lookup.called
    /\ Positions = {1, 2}
    /\ lookup.items[1] # lookup.items[2]
    /\ lookup.result = Item(lookup.items[1])
    /\ lookup.result # Item(ItemDict(lookup.items)[lookup.part_number])

---------------------------------------------------------------------------
(* The letter prefix of the short form.                                    *)

\* The characters of a string.
Chars(s) == {SubSeq(s, n, n) : n \in 1..Len(s)}

CapitalLetters ==
    {"A", "B", "C", "D", "E", "F", "G", "H", "I", "J", "K", "L", "M",
     "N", "O", "P", "Q", "R", "S", "T", "U", "V", "W", "X", "Y", "Z"}

\* C26: for every prefix index i >= 0, _prefix_from_index(i) is a string
\* of one or two characters, all in A..Z, of one letter for i < 26, and
\* two calls with distinct indices return distinct prefixes.
C26_LetterPrefixes ==
    prefixCall.calls > 0 =>
        /\ Len(prefixCall.prefix) \in {1, 2}
        /\ Len(prefixCall.prefix) = 1 <=> prefixCall.i < 26
        /\ Chars(prefixCall.prefix) \subseteq CapitalLetters
        /\ (prefixCall.calls = 2 /\ prefixCall.i # prefixCall.earlier_i) =>
               prefixCall.prefix # prefixCall.earlier_prefix

---------------------------------------------------------------------------
(* The parent-collision loop of random_row_for_child.                      *)

\* The loop of a random_row_for_child call has been followed.
Allocated == lastOp = "allocated"

\* The loop ended within one retry.
AtMostOneRetry == genRetries[1] <= 1 /\ ~genArgs.again

\* The numbers the form the call uses can return with the counter at c.
NumbersAt(c) ==
    IF genArgs.use_long_partno
    THEN {get_next_partno_long(c, draw).partno : draw \in LongDraws}
    ELSE IF c \div PerPrefix < MaxPrefixIndex
         THEN {get_next_partno(c).partno} ELSE {}

---------------------------------------------------------------------------
(* The defaults of randomly generated rows.                                *)

\* The random_l2_per_l1 or random_l3_per_l2 setting of the run.
RandomPerOf(level) ==
    IF level = 2 THEN Level2Section(form, run.child_data).random_per
    ELSE Level3Section(form, run.child_data,
                       Level2Section(form, run.child_data).config).random_per

\* The k-th row of a level in the sheet holds what
\* _apply_random_row_defaults gives the j-th row of a batch with the
\* manufactured count n.
HoldsDefaults(level, k, j, n) ==
    LET cells == SheetRowsOfLevel(level)[k]
    IN  /\ cells[Col("Category")] = S("")
        /\ cells[Col("UM")] = S("EA")
        /\ cells[Col("Source")] = S(IF j <= n THEN "F" ELSE "J")
        /\ cells[Col("Productline")] = S(IF j <= n THEN "CP" ELSE "CM")
        /\ cells[Col("Productline")] = S("CP")
               <=> cells[Col("Source")] = S("F")

\* The rows of Level 2 or 3 generated for each manufactured parent, which
\* come first, batch after batch, and those of the random groups.
RandomBatchesHoldDefaults(level) ==
    /\ \A k \in 1..GroupStart(level, 1) :
           HoldsDefaults(level, k, ((k - 1) % RandomPerOf(level).count) + 1,
                         RandomPerOf(level).manufactured_count)
    /\ \A i \in 1..Len(SectionConfig(level)) :
           SectionConfig(level)[i].random =>
               \A j \in 1..SectionConfig(level)[i].count :
                   HoldsDefaults(level, GroupStart(level, i) + j, j,
                                 SectionConfig(level)[i].manufactured_count)

\* The row of index k of a level was randomly generated.
IsRandomRow(level, k) ==
    CASE level = 0 -> FALSE
      [] level = 1 -> form.use_random_children
      [] OTHER ->
           \/ k <= GroupStart(level, 1)
           \/ \E i \in 1..Len(SectionConfig(level)) :
                  /\ SectionConfig(level)[i].random
                  /\ k > GroupStart(level, i)
                  /\ k <= GroupStart(level, i) + SectionConfig(level)[i].count

\* C28: in every written BOM each randomly generated row holds Category
\* blank, UM "EA", Source "F" if it is among the first N rows of its batch
\* (N the manufactured count of the batch) and "J" otherwise, and
\* Productline "CP" exactly when its Source is "F" and "CM" otherwise,
\* whatever the generator populated; and no run reports a category/source
\* violation for a randomly generated row.
C28_RandomRowDefaults ==
    /\ run.status = "written" =>
           /\ form.use_random_children =>
                  \A k \in 1..Len(run.child_data) :
                      HoldsDefaults(1, k, k, form.l1_manufactured_count)
           /\ RandomBatchesHoldDefaults(2)
           /\ RandomBatchesHoldDefaults(3)
    /\ run.status \in {"written", "errors"} =>
           \A n \in 1..Len(run.errors) :
               run.errors[n].rule \in {"Phantom", "Exclude"} =>
                   ~IsRandomRow(run.errors[n].level, run.errors[n].index)

\* A written BOM with two random Level 1 rows generated with Category,
\* Source, UM and Productline populated, the first of them manufactured,
\* and a batch of two random rows under a manufactured part at Level 2 and
\* at Level 3.
C28_Witness ==
    /\ run.status = "written"
    /\ form.use_random_children
    /\ {"Category", "Source", "UM", "Productline"}
           \subseteq form.fields_for_random
    /\ Len(run.child_data) = 2
    /\ form.l1_manufactured_count = 1
    /\ GroupStart(2, 1) = 2
    /\ GroupStart(3, 1) = 2
    /\ RandomPerOf(3).manufactured_count = 1

---------------------------------------------------------------------------
(* C24: the header check.                                                  *)

\* The run of main() or of generate stopped at the header check.
UIStoppedAtHeaders == run.status = "header_mismatch"
CliStoppedAtHeaders == cli.status = "RuntimeError"

\* A run of main() that built nothing: no row dict, no workbook row.
BuiltNothing ==
    /\ IsNoRow(run.parent_row)
    /\ run.child_data = <<>>
    /\ run.level2_rows = <<>>
    /\ run.level3_rows = <<>>
    /\ run.ws = <<>>

\* C24: the header check passes if and only if the first row of the
\* template is the 27 expected names in their order; a generate command
\* whose check fails raises with no row appended and nothing saved, and a
\* run of main() whose check fails stops having built no row, unless
\* Continue Anyway was clicked to start that very run.
C24_HeaderCheck ==
    /\ Len(TEMPLATE_HEADERS) = 27
    /\ cli.status # "idle" =>
        /\ CliStoppedAtHeaders <=> cli.headers # TEMPLATE_HEADERS
        /\ CliStoppedAtHeaders =>
            cli.ws = <<>> /\ ~cli.saved /\ cli.file = <<>>
    /\ UIStoppedAtHeaders <=>
        (form.headers # TEMPLATE_HEADERS /\ clicked # "Continue Anyway")
    /\ UIStoppedAtHeaders => BuiltNothing

\* Generate BOM was clicked on a page shown after Continue Anyway, with a
\* template whose first row differs: the run stops at the check again.
C24_Witness ==
    /\ form.headers \in MismatchedHeaders
    /\ form.parent_partno # ""
    /\ clicked = "Generate BOM"
    /\ UIStoppedAtHeaders
    /\ BuiltNothing

---------------------------------------------------------------------------
(* C25: going on after a header mismatch.                                  *)

\* The page's form with the expected template selected instead.
WithExpectedTemplate(f) == [f EXCEPT !.headers = TEMPLATE_HEADERS]

\* What the widgets hold would give a BOM at Generate BOM, were the
\* template the expected one.
WouldProduceBOM ==
    \E draws \in RunDraws :
        main(WithExpectedTemplate(form), "Generate BOM", draws).status
            = "written"

\* The latest run built the workbook and offered it for download.
BOMProduced == run.status = "written" /\ run.ws # <<>>

\* C25: a schema mismatch is recoverable on the page: with a template
\* whose first row differs and a form that would otherwise give a BOM,
\* confirming with Continue Anyway and clicking Generate BOM ends with a
\* BOM produced from that template.
C25_Recoverable ==
    (form.headers # TEMPLATE_HEADERS /\ WouldProduceBOM) ~> BOMProduced

\* No run on a template whose first row differs ever builds the workbook.
MismatchNeverProduces == form.headers # TEMPLATE_HEADERS => ~BOMProduced
===========================================================================
